---------------------------- MODULE Spec2Model ----------------------------
(***************************************************************************)
(* A model of the four-qubit gates of OpenFermion-Cirq                     *)
(* (openfermioncirq/gates/four_qubit_gates.py): state_swap_eigen_component,*)
(* DoubleExcitationGate and CombinedDoubleExcitationGate; of the           *)
(* three-qubit gates CXXYYPowGate and CYXXYPowGate (three_qubit_gates.py); *)
(* and of the parameters of LowRankTrotterAnsatz.                          *)
(*                                                                         *)
(* Numbers.  Python floats are modelled by exact rationals <<n, d>> in     *)
(* lowest terms (d > 0).  Angles given in radians or as a duration are     *)
(* rational multiples of pi and are stored as that rational coefficient.   *)
(* Complex amplitudes are exact elements of Z[z][1/2], z = e^{i pi/8}      *)
(* (z^8 = -1), stored as [c |-> <<c0..c7>>, k |-> n] = (sum c_j z^j)/2^k   *)
(* in lowest terms; this ring holds e^{i pi t} for every t that is a       *)
(* multiple of 1/8, and 1/sqrt(2).                                         *)
(***************************************************************************)
EXTENDS Integers, Sequences, FiniteSets, TLC

-----------------------------------------------------------------------------
(* Exact rationals *)

RECURSIVE GCD(_, _)
GCD(a, b) == IF b = 0 THEN a ELSE GCD(b, a % b)

Abs(n) == IF n < 0 THEN -n ELSE n

\* n/d in lowest terms with a positive denominator (d # 0)
R(n, d) ==
    LET s == IF d < 0 THEN -1 ELSE 1
        g == GCD(Abs(n), Abs(d))
    IN  <<(s * n) \div g, (s * d) \div g>>

RInt(n) == <<n, 1>>
RAdd(x, y) == R(x[1] * y[2] + y[1] * x[2], x[2] * y[2])
RNeg(x) == <<-x[1], x[2]>>
RSub(x, y) == RAdd(x, RNeg(y))
RMul(x, y) == R(x[1] * y[1], x[2] * y[2])
RDiv(x, y) == R(x[1] * y[2], x[2] * y[1])
RLess(x, y) == x[1] * y[2] < y[1] * x[2]
RIsInt(x) == x[2] = 1

\* Python's x % m for a positive integer m: the representative in [0, m)
RMod(x, m) == R(x[1] % (m * x[2]), x[2])

\* least positive rational that is an integer multiple of both x and y (> 0)
RLcm(x, y) ==
    LET n == (x[1] * y[1]) \div GCD(x[1], y[1])
    IN  R(n, GCD(x[2], y[2]))

-----------------------------------------------------------------------------
(* Exact amplitudes: Z[z][1/2] with z = e^{i pi / 8} *)

Coef == 1..8

AllEven(c) == \A j \in Coef : c[j] % 2 = 0

RECURSIVE ANorm(_, _)
ANorm(c, k) ==
    IF k > 0 /\ AllEven(c)
    THEN ANorm([j \in Coef |-> c[j] \div 2], k - 1)
    ELSE [c |-> c, k |-> k]

RECURSIVE Pow2(_)
Pow2(n) == IF n = 0 THEN 1 ELSE 2 * Pow2(n - 1)

AZero == [c |-> <<0, 0, 0, 0, 0, 0, 0, 0>>, k |-> 0]
AOne == [c |-> <<1, 0, 0, 0, 0, 0, 0, 0>>, k |-> 0]

AAdd(a, b) ==
    LET k == IF a.k > b.k THEN a.k ELSE b.k
        fa == Pow2(k - a.k)
        fb == Pow2(k - b.k)
    IN  ANorm([j \in Coef |-> fa * a.c[j] + fb * b.c[j]], k)

ANeg(a) == [c |-> [j \in Coef |-> -a.c[j]], k |-> a.k]
ASub(a, b) == AAdd(a, ANeg(b))
AHalf(a) == ANorm(a.c, a.k + 1)

\* a * z^n, n any integer (z^16 = 1, z^8 = -1)
AMulZ(a, n) ==
    LET m == n % 16
        s == m % 8
        sg == IF m >= 8 THEN -1 ELSE 1
    IN  [c |-> [j \in Coef |->
                  IF j - s >= 1 THEN sg * a.c[j - s] ELSE -sg * a.c[j - s + 8]],
         k |-> a.k]

\* a times the rational x, whose denominator is a power of two
RECURSIVE Log2(_)
Log2(d) == IF d = 1 THEN 0 ELSE 1 + Log2(d \div 2)

AScale(a, x) == ANorm([j \in Coef |-> x[1] * a.c[j]], a.k + Log2(x[2]))

RECURSIVE ASum(_, _, _)
\* sum of f[i] for i in lo..hi
ASum(f, lo, hi) == IF lo > hi THEN AZero ELSE AAdd(f[lo], ASum(f, lo + 1, hi))

\* general product: sum over j of a.c[j] * z^(j-1) * b
AMul(a, b) ==
    LET t == [j \in Coef |-> AMulZ([c |-> [i \in Coef |-> a.c[j] * b.c[i]], k |-> 0], j - 1)]
        s == ASum(t, 1, 8)
    IN  ANorm(s.c, s.k + a.k + b.k)

\* complex conjugate: z -> z^-1 = -z^7
AConj(a) ==
    [c |-> [j \in Coef |-> IF j = 1 THEN a.c[1] ELSE -a.c[10 - j]], k |-> a.k]

\* e^{i pi t} for a rational t that is a multiple of 1/8
OnGrid(t) == 8 % t[2] = 0
Eighths(t) == t[1] * (8 \div t[2])
Phase(t) == AMulZ(AOne, Eighths(t))

-----------------------------------------------------------------------------
(* State vectors of four qubits and the elementary operations of cirq.     *)
(* Qubit k of an operation's qubit tuple is bit k of the basis index,      *)
(* most significant first: |pqrs> has index 8p + 4q + 2r + s.              *)

NQubits == 4
Basis == 0..15

Bit(i, q) == (i \div Pow2(NQubits - 1 - q)) % 2
Flip(i, q) == IF Bit(i, q) = 1 THEN i - Pow2(NQubits - 1 - q) ELSE i + Pow2(NQubits - 1 - q)
With0(i, q) == IF Bit(i, q) = 1 THEN Flip(i, q) ELSE i
With1(i, q) == IF Bit(i, q) = 1 THEN i ELSE Flip(i, q)

\* the basis vector |i>
Ket(i) == [j \in Basis |-> IF j = i THEN AOne ELSE AZero]
VAdd(v, w) == [j \in Basis |-> AAdd(v[j], w[j])]

Op(g, q, e) == [g |-> g, q |-> q, e |-> e]
CNOT(c, t) == Op("CNOT", <<c, t>>, RInt(1))
XPow(q, e) == Op("X", <<q>>, e)
ZPow(q, e) == Op("Z", <<q>>, e)
H(q) == Op("H", <<q>>, RInt(1))
CZPow(a, b, e) == Op("CZ", <<a, b>>, e)
CCZPow(c, a, b, e) == Op("CCZ", <<c, a, b>>, e)

ApplyCNOT(c, t, v) == [i \in Basis |-> v[IF Bit(i, c) = 1 THEN Flip(i, t) ELSE i]]

\* X**e = P0 + e^{i pi e} P1 with P0 = [[.5,.5],[.5,.5]], P1 = [[.5,-.5],[-.5,.5]]
ApplyXPow(q, e, v) ==
    [i \in Basis |->
        LET s == AAdd(v[With0(i, q)], v[With1(i, q)])
            d == AMulZ(ASub(v[With0(i, q)], v[With1(i, q)]), Eighths(e))
        IN  AHalf(IF Bit(i, q) = 0 THEN AAdd(s, d) ELSE ASub(s, d))]

\* Z**e = diag(1, e^{i pi e})
ApplyZPow(q, e, v) ==
    [i \in Basis |-> IF Bit(i, q) = 1 THEN AMulZ(v[i], Eighths(e)) ELSE v[i]]

\* H = [[1, 1], [1, -1]] / sqrt(2), with 1/sqrt(2) = (z^2 + z^14)/2
ApplyH(q, v) ==
    [i \in Basis |->
        LET x == IF Bit(i, q) = 0
                 THEN AAdd(v[With0(i, q)], v[With1(i, q)])
                 ELSE ASub(v[With0(i, q)], v[With1(i, q)])
        IN  AHalf(AAdd(AMulZ(x, 2), AMulZ(x, 14)))]

\* CZ**e = diag(1, 1, 1, e^{i pi e})
ApplyCZPow(a, b, e, v) ==
    [i \in Basis |->
        IF Bit(i, a) = 1 /\ Bit(i, b) = 1 THEN AMulZ(v[i], Eighths(e)) ELSE v[i]]

\* CCZ**e = diag(1, 1, 1, 1, 1, 1, 1, e^{i pi e})
ApplyCCZPow(c, a, b, e, v) ==
    [i \in Basis |->
        IF Bit(i, c) = 1 /\ Bit(i, a) = 1 /\ Bit(i, b) = 1
        THEN AMulZ(v[i], Eighths(e)) ELSE v[i]]

ApplyOp(op, v) ==
    CASE op.g = "CNOT" -> ApplyCNOT(op.q[1], op.q[2], v)
      [] op.g = "X" -> ApplyXPow(op.q[1], op.e, v)
      [] op.g = "Z" -> ApplyZPow(op.q[1], op.e, v)
      [] op.g = "H" -> ApplyH(op.q[1], v)
      [] op.g = "CZ" -> ApplyCZPow(op.q[1], op.q[2], op.e, v)
      [] op.g = "CCZ" -> ApplyCCZPow(op.q[1], op.q[2], op.q[3], op.e, v)

\* cirq.inverse(op): the same operation with its exponent negated
\* (CNOT**-1 and H**-1 are CNOT and H)
Inverse(op) == IF op.g \in {"X", "Z", "CZ"} THEN Op(op.g, op.q, RNeg(op.e)) ELSE op

RECURSIVE Reversed(_)
Reversed(s) == IF s = <<>> THEN <<>> ELSE Append(Reversed(Tail(s)), Head(s))

\* every phase exponent of the operation list is a multiple of 1/8
OpsOnGrid(ops) == \A n \in 1..Len(ops) : OnGrid(ops[n].e)

-----------------------------------------------------------------------------
(* state_swap_eigen_component *)

\* Python values passed as x and y: a str (a sequence of characters) or an int
PyStr(chars) == [t |-> "str", v |-> chars]
PyInt(n) == [t |-> "int", v |-> <<n>>]

Returned(m) == [raised |-> "none", value |-> m]
Raised(e) == [raised |-> e, value |-> <<>>]

\* int(x, 2) of a 0-1 string
RECURSIVE ParseBinary(_)
ParseBinary(chars) ==
    IF chars = <<>> THEN 0
    ELSE 2 * ParseBinary(SubSeq(chars, 1, Len(chars) - 1))
         + (IF chars[Len(chars)] = "1" THEN 1 ELSE 0)

Chars(chars) == {chars[n] : n \in 1..Len(chars)}

ZeroMatrix(dim) == [a \in 0..(dim - 1) |-> [b \in 0..(dim - 1) |-> RInt(0)]]
Diag(d) == [a \in 0..(Len(d) - 1) |-> [b \in 0..(Len(d) - 1) |->
               IF a = b THEN RInt(d[a + 1]) ELSE RInt(0)]]
SetEntry(m, a, b, x) == [m EXCEPT ![a][b] = x]

\* lines 62-68: the matrix built once the arguments are validated
SwapComponentNotMirrored(x, y, sign) ==
    LET dim == Pow2(Len(x))
        i == ParseBinary(x)
        j == ParseBinary(y)
        c1 == SetEntry(SetEntry(ZeroMatrix(dim), j, j, R(1, 2)), i, i, R(1, 2))
    IN  SetEntry(c1, i, j, R(sign, 2))

SwapComponentMatrix(x, y, sign) ==
    LET dim == Pow2(Len(x))
        i == ParseBinary(x)
        j == ParseBinary(y)
        c1 == SetEntry(SetEntry(ZeroMatrix(dim), j, j, R(1, 2)), i, i, R(1, 2))
    IN  SetEntry(SetEntry(c1, j, i, R(sign, 2)), i, j, R(sign, 2))

SwapComponentLengthBeforeType(x, y, sign) ==
    IF Len(x.v) # Len(y.v) THEN Raised("ValueError")
    ELSE IF ~(x.t = "str" /\ y.t = "str") THEN Raised("TypeError")
    ELSE IF (Chars(x.v) \cup Chars(y.v)) \ {"0", "1"} # {} THEN Raised("ValueError")
    ELSE IF x.v = y.v THEN Raised("ValueError")
    ELSE IF sign \notin {-1, 1} THEN Raised("ValueError")
    ELSE Returned(SwapComponentMatrix(x.v, y.v, sign))

state_swap_eigen_component(x, y, sign) ==
    IF ~(x.t = "str" /\ y.t = "str") THEN Raised("TypeError")
    ELSE IF Len(x.v) # Len(y.v) THEN Raised("ValueError")
    ELSE IF (Chars(x.v) \cup Chars(y.v)) \ {"0", "1"} # {} THEN Raised("ValueError")
    ELSE IF x.v = y.v THEN Raised("ValueError")
    ELSE IF sign \notin {-1, 1} THEN Raised("ValueError")
    ELSE Returned(SwapComponentMatrix(x.v, y.v, sign))

\* the default of the sign parameter
DefaultSign == 1

\* a call with or without the sign argument
CallSwapComponent(a) ==
    state_swap_eigen_component(a.x, a.y, IF a.has_sign THEN a.sign ELSE DefaultSign)

-----------------------------------------------------------------------------
(* Gate objects and their constructors *)

\* Python's None
None == <<>>

\* the keyword arguments of a constructor call
Kwargs(cls, weights, absorb, exponent, rads, degs, duration) ==
    [cls |-> cls, weights |-> weights, absorb_exponent |-> absorb,
     exponent |-> exponent, rads |-> rads, degs |-> degs, duration |-> duration]

NumGiven(kw) ==
    Cardinality({n \in 1..4 : <<kw.exponent, kw.rads, kw.degs, kw.duration>>[n] # None})

\* A sympy expression in place of a number: a Symbol, or the result of
\* arithmetic that involves one (any sympy.Basic that is not a bare Symbol)
Symbol(name) == <<"sympy", "Symbol", name>>
SymExpr(name) == <<"sympy", "Expr", name>>
IsSymbolic(v) == Len(v) = 3
SymbolOf(a, b) == IF IsSymbolic(a) THEN a[3] ELSE b[3]

\* Python's a * b, a / b and a % m on floats and sympy expressions
PyMul(a, b) == IF IsSymbolic(a) \/ IsSymbolic(b) THEN SymExpr(SymbolOf(a, b)) ELSE RMul(a, b)
PyDiv(a, b) == IF IsSymbolic(a) \/ IsSymbolic(b) THEN SymExpr(SymbolOf(a, b)) ELSE RDiv(a, b)
PyMod(a, m) == IF IsSymbolic(a) THEN SymExpr(a[3]) ELSE RMod(a, m)

\* cirq.chosen_angle_to_half_turns; rads is held as its coefficient of pi
chosen_angle_to_half_turns(half_turns, rads, degs) ==
    IF rads # None THEN PyDiv(rads, RInt(1))
    ELSE IF degs # None THEN PyDiv(degs, RInt(180))
    ELSE IF half_turns # None THEN half_turns
    ELSE RInt(1)

NormalizedExponentHalfDuration(kw) ==
    IF kw.duration # None THEN kw.duration
    ELSE chosen_angle_to_half_turns(kw.exponent, kw.rads, kw.degs)

\* the exponent in half-turns; duration is held as its coefficient of pi,
\* so 2 * duration / np.pi is twice that coefficient
NormalizedExponent(kw) ==
    IF kw.duration # None THEN PyMul(RInt(2), kw.duration)
    ELSE chosen_angle_to_half_turns(kw.exponent, kw.rads, kw.degs)

RedundantTruthy(kw) ==
    Cardinality({n \in 1..4 :
        /\ <<kw.exponent, kw.rads, kw.degs, kw.duration>>[n] # None
        /\ <<kw.exponent, kw.rads, kw.degs, kw.duration>>[n] # RInt(0)}) > 1

\* more than one of exponent, rads, degs, duration is not None
Redundant(kw) == NumGiven(kw) > 1

Gate(cls, weights, exponent) == [cls |-> cls, weights |-> weights, exponent |-> exponent]
NoGate == Gate("none", <<>>, None)

DoubleExcitationGateInit(kw) ==
    IF Redundant(kw) THEN Raised("ValueError")
    ELSE Returned(Gate("DoubleExcitationGate", <<>>, NormalizedExponent(kw)))

AbsorbModTwo(g) ==
    Gate(g.cls, [n \in 1..3 |-> RMod(RMul(g.weights[n], g.exponent), 2)], RInt(1))

absorb_exponent_into_weights(g) ==
    Gate(g.cls, [n \in 1..3 |-> PyMod(PyMul(g.weights[n], g.exponent), 4)], RInt(1))

CombinedInitNeverAbsorbs(kw) ==
    IF Redundant(kw) THEN Raised("ValueError")
    ELSE Returned(Gate("CombinedDoubleExcitationGate", kw.weights, NormalizedExponent(kw)))

CombinedDoubleExcitationGateInit(kw) ==
    IF Redundant(kw) THEN Raised("ValueError")
    ELSE LET g == Gate("CombinedDoubleExcitationGate", kw.weights, NormalizedExponent(kw))
         IN  Returned(IF kw.absorb_exponent THEN absorb_exponent_into_weights(g) ELSE g)

\* CXXYYPowGate(exponent=...) and CYXXYPowGate(exponent=...): the classes
\* define no __init__, so cirq.EigenGate.__init__(exponent=1.0) runs
ControlledGateInit(kw) ==
    Returned(Gate(kw.cls, <<>>, IF kw.exponent = None THEN RInt(1) ELSE kw.exponent))

Construct(kw) ==
    IF kw.cls = "DoubleExcitationGate" THEN DoubleExcitationGateInit(kw)
    ELSE IF kw.cls = "CombinedDoubleExcitationGate" THEN CombinedDoubleExcitationGateInit(kw)
    ELSE ControlledGateInit(kw)

\* DoubleExcitationGate._with_exponent
DoubleWithExponent(g, exponent) ==
    DoubleExcitationGateInit(
        Kwargs("DoubleExcitationGate", <<>>, TRUE, exponent, None, None, None)).value

\* CombinedDoubleExcitationGate._with_exponent: the constructor is called
\* with the weights alone (absorb_exponent=True, exponent 1), then the new
\* gate's _exponent is overwritten
CombinedWithExponent(g, exponent) ==
    LET gate == CombinedDoubleExcitationGateInit(
                    Kwargs("CombinedDoubleExcitationGate", g.weights, TRUE,
                           None, None, None, None)).value
    IN  Gate(gate.cls, gate.weights, exponent)

-----------------------------------------------------------------------------
(* Eigen-decompositions *)

Component(ev, m) == [ev |-> ev, m |-> m]

\* DoubleExcitationGate._eigen_components
DoubleExcitationEigenComponents ==
    LET z16 == ZeroMatrix(16)
        minus_one_component ==
            SetEntry(SetEntry(SetEntry(SetEntry(z16, 12, 12, R(1, 2)), 3, 3, R(1, 2)),
                              12, 3, R(-1, 2)), 3, 12, R(-1, 2))
        plus_one_component ==
            SetEntry(SetEntry(SetEntry(SetEntry(z16, 12, 12, R(1, 2)), 3, 3, R(1, 2)),
                              12, 3, R(1, 2)), 3, 12, R(1, 2))
    IN  << Component(RInt(0), Diag(<<1, 1, 1, 0, 1, 1, 1, 1, 1, 1, 1, 1, 0, 1, 1, 1>>)),
           Component(RInt(-1), minus_one_component),
           Component(RInt(1), plus_one_component) >>

\* bin(i).count('1')
HammingWeight(i) == Bit(i, 0) + Bit(i, 1) + Bit(i, 2) + Bit(i, 3)

Str(chars) == PyStr(chars)
state_pairs ==
    << << <<"1", "0", "0", "1">>, <<"0", "1", "1", "0">> >>,
       << <<"0", "1", "0", "1">>, <<"1", "0", "1", "0">> >>,
       << <<"0", "0", "1", "1">>, <<"1", "1", "0", "0">> >> >>

CombinedEigenComponentsSwappedSigns(weights) ==
    LET zero_component ==
            Diag([n \in 1..16 |-> IF HammingWeight(n - 1) # 2 THEN 1 ELSE 0])
        pm == [n \in 1..6 |->
                 LET w == (n + 1) \div 2
                     sign == IF n % 2 = 1 THEN -1 ELSE 1
                 IN  Component(RDiv(RMul(weights[w], RInt(sign)), RInt(2)),
                               state_swap_eigen_component(
                                   Str(state_pairs[w][1]), Str(state_pairs[w][2]), -sign).value)]
    IN  <<Component(RInt(0), zero_component)>> \o pm

\* CombinedDoubleExcitationGate._eigen_components: the zero component, then
\* for each weight the sign -1 and the sign +1 component
CombinedEigenComponents(weights) ==
    LET zero_component ==
            Diag([n \in 1..16 |-> IF HammingWeight(n - 1) # 2 THEN 1 ELSE 0])
        pm == [n \in 1..6 |->
                 LET w == (n + 1) \div 2
                     sign == IF n % 2 = 1 THEN -1 ELSE 1
                 IN  Component(RDiv(RMul(weights[w], RInt(sign)), RInt(2)),
                               state_swap_eigen_component(
                                   Str(state_pairs[w][1]), Str(state_pairs[w][2]), sign).value)]
    IN  <<Component(RInt(0), zero_component)>> \o pm

EigenComponents(g) ==
    IF g.cls = "DoubleExcitationGate" THEN DoubleExcitationEigenComponents
    ELSE CombinedEigenComponents(g.weights)

\* matrix (of rationals with power-of-two denominators) times vector
RECURSIVE RowDot(_, _, _)
\* sum over b' >= b of row[b'] * v[b']
RowDot(row, v, b) ==
    IF b > 15 THEN AZero
    ELSE IF row[b][1] = 0 \/ v[b] = AZero THEN RowDot(row, v, b + 1)
    ELSE AAdd(AScale(v[b], row[b]), RowDot(row, v, b + 1))

MatVec(m, v) == [a \in Basis |-> RowDot(m[a], v, 0)]

RECURSIVE VSum(_, _, _)
VSum(f, lo, hi) ==
    IF lo > hi THEN [j \in Basis |-> AZero] ELSE VAdd(f[lo], VSum(f, lo + 1, hi))

\* cirq.EigenGate's unitary, sum_k e^{i pi exponent eigenvalue_k} projector_k,
\* applied to the vector v
EigenUnitaryApply(g, v) ==
    LET comps == EigenComponents(g)
        terms == [n \in 1..Len(comps) |->
                    LET pv == MatVec(comps[n].m, v)
                        ph == Eighths(RMul(g.exponent, comps[n].ev))
                    IN  [j \in Basis |-> AMulZ(pv[j], ph)]]
    IN  VSum(terms, 1, Len(comps))

\* the phases e^{i pi exponent eigenvalue_k}, each held as the exponent modulo 2
EigenPhases(g) ==
    [n \in 1..Len(EigenComponents(g)) |-> RMod(RMul(g.exponent, EigenComponents(g)[n].ev), 2)]

-----------------------------------------------------------------------------
(* Three-qubit gates (three_qubit_gates.py): CXXYYPowGate, CYXXYPowGate.   *)
(* Their eigen-components hold complex entries re + im j with rational re  *)
(* and im.                                                                 *)

Cx(re, im) == [re |-> re, im |-> im]
CxZero == Cx(RInt(0), RInt(0))
CxOne == Cx(RInt(1), RInt(0))
CxAdd(x, y) == Cx(RAdd(x.re, y.re), RAdd(x.im, y.im))
CxMul(x, y) ==
    Cx(RSub(RMul(x.re, y.re), RMul(x.im, y.im)), RAdd(RMul(x.re, y.im), RMul(x.im, y.re)))

\* a real matrix as a complex one
ToComplex(m) == [a \in DOMAIN m |-> [b \in DOMAIN m[a] |-> Cx(m[a][b], RInt(0))]]

\* np.diag(d) and np.array(rows) as blocks: sequences of rows
DiagBlock(d) == [a \in 1..Len(d) |-> [b \in 1..Len(d) |-> IF a = b THEN d[a] ELSE CxZero]]

RECURSIVE BlockOffset(_, _)
\* the number of rows of the blocks before block k
BlockOffset(blocks, k) == IF k = 1 THEN 0 ELSE BlockOffset(blocks, k - 1) + Len(blocks[k - 1])

\* cirq.linalg.block_diag(*blocks)
block_diag(blocks) ==
    LET dim == BlockOffset(blocks, Len(blocks) + 1)
        BlockOf(a) == CHOOSE k \in 1..Len(blocks) :
                         /\ BlockOffset(blocks, k) <= a
                         /\ a < BlockOffset(blocks, k) + Len(blocks[k])
    IN  [a \in 0..(dim - 1) |-> [b \in 0..(dim - 1) |->
            IF BlockOf(a) = BlockOf(b)
            THEN blocks[BlockOf(a)][a - BlockOffset(blocks, BlockOf(a)) + 1]
                                   [b - BlockOffset(blocks, BlockOf(a)) + 1]
            ELSE CxZero]]

FiveZeros == DiagBlock(<<CxZero, CxZero, CxZero, CxZero, CxZero>>)
OneZero == DiagBlock(<<CxZero>>)
ControlledZeroComponent == ToComplex(Diag(<<1, 1, 1, 1, 1, 0, 0, 1>>))

\* the XX + YY blocks placed on |001>, |010>: no control qubit
CXXYYEigenComponentsUncontrolled ==
    LET h == Cx(R(1, 2), RInt(0))
        mh == Cx(R(-1, 2), RInt(0))
        minus_half_component == block_diag(<<OneZero, << <<h, h>>, <<h, h>> >>, FiveZeros>>)
        plus_half_component == block_diag(<<OneZero, << <<h, mh>>, <<mh, h>> >>, FiveZeros>>)
    IN  << Component(RInt(0), ToComplex(Diag(<<1, 0, 0, 1, 1, 1, 1, 1>>))),
           Component(R(-1, 2), minus_half_component),
           Component(R(1, 2), plus_half_component) >>

\* CXXYYPowGate._eigen_components
CXXYYEigenComponents ==
    LET h == Cx(R(1, 2), RInt(0))
        mh == Cx(R(-1, 2), RInt(0))
        minus_half_component == block_diag(<<FiveZeros, << <<h, h>>, <<h, h>> >>, OneZero>>)
        plus_half_component == block_diag(<<FiveZeros, << <<h, mh>>, <<mh, h>> >>, OneZero>>)
    IN  << Component(RInt(0), ControlledZeroComponent),
           Component(R(-1, 2), minus_half_component),
           Component(R(1, 2), plus_half_component) >>

CYXXYEigenComponentsSameSign ==
    LET h == Cx(R(1, 2), RInt(0))
        mj == Cx(RInt(0), R(-1, 2))
        pj == Cx(RInt(0), R(1, 2))
        minus_half_component == block_diag(<<FiveZeros, << <<h, mj>>, <<mj, h>> >>, OneZero>>)
        plus_half_component == block_diag(<<FiveZeros, << <<h, pj>>, <<pj, h>> >>, OneZero>>)
    IN  << Component(RInt(0), ControlledZeroComponent),
           Component(R(-1, 2), minus_half_component),
           Component(R(1, 2), plus_half_component) >>

\* CYXXYPowGate._eigen_components
CYXXYEigenComponents ==
    LET h == Cx(R(1, 2), RInt(0))
        mj == Cx(RInt(0), R(-1, 2))
        pj == Cx(RInt(0), R(1, 2))
        minus_half_component == block_diag(<<FiveZeros, << <<h, mj>>, <<pj, h>> >>, OneZero>>)
        plus_half_component == block_diag(<<FiveZeros, << <<h, pj>>, <<mj, h>> >>, OneZero>>)
    IN  << Component(RInt(0), ControlledZeroComponent),
           Component(R(-1, 2), minus_half_component),
           Component(R(1, 2), plus_half_component) >>

\* gate._eigen_components() of any of the four classes, with complex entries
ComplexEigenComponents(g) ==
    IF g.cls = "CXXYYPowGate" THEN CXXYYEigenComponents
    ELSE IF g.cls = "CYXXYPowGate" THEN CYXXYEigenComponents
    ELSE [n \in 1..Len(EigenComponents(g)) |->
             Component(EigenComponents(g)[n].ev, ToComplex(EigenComponents(g)[n].m))]

\* 2 ** gate.num_qubits()
GateDim(g) == IF g.cls \in {"CXXYYPowGate", "CYXXYPowGate"} THEN 8 ELSE 16

\* matrix product, sum and identity (numpy's dot, + and eye)
RECURSIVE CxSum(_, _)
CxSum(f, S) ==
    IF S = {} THEN CxZero
    ELSE LET c == CHOOSE c \in S : TRUE IN CxAdd(f[c], CxSum(f, S \ {c}))

MatMul(m1, m2) ==
    [a \in DOMAIN m1 |->
        LET support == {c \in DOMAIN m1[a] : m1[a][c] # CxZero}
        IN  [b \in DOMAIN m1 |-> CxSum([c \in support |-> CxMul(m1[a][c], m2[c][b])], support)]]

MatAdd(m1, m2) == [a \in DOMAIN m1 |-> [b \in DOMAIN m1 |-> CxAdd(m1[a][b], m2[a][b])]]
MatZero(dim) == [a \in 0..(dim - 1) |-> [b \in 0..(dim - 1) |-> CxZero]]
MatEye(dim) == [a \in 0..(dim - 1) |-> [b \in 0..(dim - 1) |-> IF a = b THEN CxOne ELSE CxZero]]

RECURSIVE MatSum(_, _)
MatSum(comps, n) ==
    IF n = 0 THEN MatZero(Cardinality(DOMAIN comps[1].m))
    ELSE MatAdd(MatSum(comps, n - 1), comps[n].m)

\* a complex rational as an amplitude: re + im * i, i = e^{i pi / 2}
CxToAmp(x) == AAdd(AScale(AOne, x.re), AScale(Phase(R(1, 2)), x.im))

\* cirq.EigenGate._unitary_ of a three-qubit gate, entry by entry:
\* sum_k e^{i pi exponent eigenvalue_k} projector_k (global shift 0)
ControlledEigenUnitary(g) ==
    LET comps == ComplexEigenComponents(g)
        ph == [n \in 1..Len(comps) |-> Phase(RMul(g.exponent, comps[n].ev))]
    IN  [a \in 0..7 |-> [b \in 0..7 |->
            ASum([n \in 1..Len(comps) |->
                     IF comps[n].m[a][b] = CxZero THEN AZero
                     ELSE AMul(ph[n], CxToAmp(comps[n].m[a][b]))],
                 1, Len(comps))]]

-----------------------------------------------------------------------------
(* Equality *)

\* cirq.EigenGate._period: the common period of 2/|eigenvalue| over the
\* non-zero eigenvalues (global shift 0)
RECURSIVE CommonPeriod(_, _)
CommonPeriod(comps, n) ==
    IF n > Len(comps) THEN None
    ELSE LET rest == CommonPeriod(comps, n + 1)
             ev == comps[n].ev
             own == RDiv(RInt(2), <<Abs(ev[1]), ev[2]>>)
         IN  IF ev[1] = 0 THEN rest
             ELSE IF rest = None THEN own
             ELSE RLcm(own, rest)

\* cirq.PeriodicValue(value, period)
PeriodicValue(value, period) == <<RMod(value, period), period>>

CombinedEqualityValuesUnscaled(g) == [n \in 1..3 |-> PeriodicValue(g.weights[n], 4)]

\* CombinedDoubleExcitationGate._value_equality_values_
CombinedEqualityValues(g) ==
    [n \in 1..3 |-> PeriodicValue(RMul(g.weights[n], g.exponent), 4)]

\* cirq.EigenGate._value_equality_values_ of DoubleExcitationGate: the
\* exponent modulo the period of its eigenvalues 0, -1, 1
DoubleEqualityValues(g) ==
    <<RMod(g.exponent, CommonPeriod(DoubleExcitationEigenComponents, 1)[1])>>

\* cirq.value_equality: same class and same equality values
GateEq(a, b) ==
    /\ a.cls = b.cls
    /\ IF a.cls = "DoubleExcitationGate"
       THEN DoubleEqualityValues(a) = DoubleEqualityValues(b)
       ELSE CombinedEqualityValues(a) = CombinedEqualityValues(b)

-----------------------------------------------------------------------------
(* Decompositions, as the flattened list of the operations yielded *)

DoubleDecomposeSameSign(g) ==
    LET p == 0
        q == 1
        r == 2
        s == 3
        rq_phase_block == <<ZPow(q, R(1, 8)), CNOT(r, q), ZPow(q, R(-1, 8))>>
        srq_parity_transform == <<CNOT(s, r), CNOT(r, q), CNOT(s, r)>>
        phase_parity_block == rq_phase_block \o srq_parity_transform \o rq_phase_block
    IN  <<CNOT(r, s), CNOT(q, p), CNOT(q, r), XPow(q, g.exponent)>>
        \o phase_parity_block
        \o <<CNOT(p, q), XPow(q, RInt(1))>>
        \o phase_parity_block
        \o <<XPow(q, g.exponent)>>
        \o phase_parity_block
        \o <<CNOT(p, q), XPow(q, RInt(1))>>
        \o phase_parity_block
        \o <<CNOT(q, p), CNOT(q, r), CNOT(r, s)>>

\* DoubleExcitationGate._decompose_ on qubits (p, q, r, s) = (0, 1, 2, 3)
DoubleDecompose(g) ==
    LET p == 0
        q == 1
        r == 2
        s == 3
        rq_phase_block == <<ZPow(q, R(1, 8)), CNOT(r, q), ZPow(q, R(-1, 8))>>
        srq_parity_transform == <<CNOT(s, r), CNOT(r, q), CNOT(s, r)>>
        phase_parity_block == rq_phase_block \o srq_parity_transform \o rq_phase_block
    IN  <<CNOT(r, s), CNOT(q, p), CNOT(q, r), XPow(q, RNeg(g.exponent))>>
        \o phase_parity_block
        \o <<CNOT(p, q), XPow(q, RInt(1))>>
        \o phase_parity_block
        \o <<XPow(q, g.exponent)>>
        \o phase_parity_block
        \o <<CNOT(p, q), XPow(q, RInt(1))>>
        \o phase_parity_block
        \o <<CNOT(q, p), CNOT(q, r), CNOT(r, s)>>

\* the fixed matrix of CombinedDoubleExcitationGate._decompose_
WeightsToExponents == << <<1, -1, 1>>, <<1, 1, -1>>, <<-1, 1, 1>> >>

\* (self._exponent / 4.) * matrix, dotted with the weights
CZExponents(g) ==
    [n \in 1..3 |->
        RAdd(RAdd(RMul(RMul(RDiv(g.exponent, RInt(4)), RInt(WeightsToExponents[n][1])), g.weights[1]),
                  RMul(RMul(RDiv(g.exponent, RInt(4)), RInt(WeightsToExponents[n][2])), g.weights[2])),
             RMul(RMul(RDiv(g.exponent, RInt(4)), RInt(WeightsToExponents[n][3])), g.weights[3]))]

MapInverse(ops) == [n \in 1..Len(ops) |-> Inverse(ops[n])]

CombinedDecomposeNoInverse(g) ==
    LET a == 0
        b == 1
        c == 2
        d == 3
        exponents == CZExponents(g)
        basis_change ==
            <<CNOT(b, a), CNOT(c, b), CNOT(d, c), CNOT(c, b), CNOT(b, a),
              CNOT(a, b), CNOT(b, c), CNOT(a, b),
              XPow(c, RInt(1)), XPow(d, RInt(1)),
              CNOT(c, d), CNOT(d, c),
              XPow(c, RInt(1)), XPow(d, RInt(1))>>
        controlled_Zs ==
            <<CZPow(b, c, exponents[1]), CNOT(a, b), CZPow(b, c, exponents[2]),
              CNOT(b, a), CNOT(a, b), CZPow(b, c, exponents[3])>>
        controlled_swaps ==
            <<CNOT(c, d), H(c), CNOT(d, c)>>
            \o controlled_Zs
            \o <<CNOT(d, c)>>
            \o Reversed(controlled_Zs)
            \o <<H(c), CNOT(c, d)>>
    IN  basis_change \o controlled_swaps \o Reversed(basis_change)

\* CombinedDoubleExcitationGate._decompose_ on qubits (a, b, c, d) = (0, 1, 2, 3)
CombinedDecompose(g) ==
    LET a == 0
        b == 1
        c == 2
        d == 3
        exponents == CZExponents(g)
        basis_change ==
            <<CNOT(b, a), CNOT(c, b), CNOT(d, c), CNOT(c, b), CNOT(b, a),
              CNOT(a, b), CNOT(b, c), CNOT(a, b),
              XPow(c, RInt(1)), XPow(d, RInt(1)),
              CNOT(c, d), CNOT(d, c),
              XPow(c, RInt(1)), XPow(d, RInt(1))>>
        controlled_Zs ==
            <<CZPow(b, c, exponents[1]), CNOT(a, b), CZPow(b, c, exponents[2]),
              CNOT(b, a), CNOT(a, b), CZPow(b, c, exponents[3])>>
        controlled_swaps ==
            <<CNOT(c, d), H(c), CNOT(d, c)>>
            \o controlled_Zs
            \o <<CNOT(d, c)>>
            \o MapInverse(Reversed(controlled_Zs))
            \o <<H(c), CNOT(c, d)>>
    IN  basis_change \o controlled_swaps \o Reversed(basis_change)

\* the correction CZ given the exponent +exponent/2
ControlledDecomposePositiveHalf(g, qubits) ==
    LET control == qubits[1]
        a == qubits[2]
        b == qubits[3]
        basis == IF g.cls = "CXXYYPowGate" THEN <<H(a), H(a)>>
                 ELSE <<XPow(a, R(1, 2)), XPow(a, R(-1, 2))>>
    IN  << CNOT(a, b),
           basis[1],
           CCZPow(control, a, b, g.exponent),
           CZPow(control, b, RDiv(g.exponent, RInt(2))),
           basis[2],
           CNOT(a, b) >>

\* the closing basis change repeats the opening one instead of undoing it
ControlledDecomposeSameRotation(g, qubits) ==
    LET control == qubits[1]
        a == qubits[2]
        b == qubits[3]
        basis == IF g.cls = "CXXYYPowGate" THEN <<H(a), H(a)>>
                 ELSE <<XPow(a, R(1, 2)), XPow(a, R(1, 2))>>
    IN  << CNOT(a, b),
           basis[1],
           CCZPow(control, a, b, g.exponent),
           CZPow(control, b, RDiv(RNeg(g.exponent), RInt(2))),
           basis[2],
           CNOT(a, b) >>

\* CXXYYPowGate._decompose_ and CYXXYPowGate._decompose_ on
\* qubits = (control, a, b)
ControlledDecompose(g, qubits) ==
    LET control == qubits[1]
        a == qubits[2]
        b == qubits[3]
        basis == IF g.cls = "CXXYYPowGate" THEN <<H(a), H(a)>>
                 ELSE <<XPow(a, R(1, 2)), XPow(a, R(-1, 2))>>
    IN  << CNOT(a, b),
           basis[1],
           CCZPow(control, a, b, g.exponent),
           CZPow(control, b, RDiv(RNeg(g.exponent), RInt(2))),
           basis[2],
           CNOT(a, b) >>

RECURSIVE ApplyOps(_, _, _)
\* the first n operations of ops act on v, in order
ApplyOps(ops, n, v) == IF n = 0 THEN v ELSE ApplyOp(ops[n], ApplyOps(ops, n - 1, v))

\* cirq.decompose_once_with_qubits(gate, qubits): the four-qubit gates on
\* qubits (0, 1, 2, 3), the three-qubit gates on (control, a, b) = (0, 1, 2)
Decompose(g) ==
    IF g.cls = "DoubleExcitationGate" THEN DoubleDecompose(g)
    ELSE IF g.cls = "CombinedDoubleExcitationGate" THEN CombinedDecompose(g)
    ELSE ControlledDecompose(g, <<0, 1, 2>>)

-----------------------------------------------------------------------------
(* _apply_unitary_ *)

\* cirq.unitary(cirq.Rx(rads)), rads held as its coefficient c of pi:
\* XPowGate(exponent=c, global_shift=-0.5), that is
\* e^{-i pi c/2} [[.5,.5],[.5,.5]] + e^{i pi c/2} [[.5,-.5],[-.5,.5]]
RxUnitary(c) ==
    LET lo == Phase(RDiv(RNeg(c), RInt(2)))
        hi == Phase(RDiv(c, RInt(2)))
    IN  << <<AHalf(AAdd(lo, hi)), AHalf(ASub(lo, hi))>>,
           <<AHalf(ASub(lo, hi)), AHalf(AAdd(lo, hi))>> >>

\* args.subspace_index(little_endian_bits_int): bit k of the integer, least
\* significant first, is the value of qubit k
subspace_index(n) ==
    8 * (n % 2) + 4 * ((n \div 2) % 2) + 2 * ((n \div 4) % 2) + ((n \div 8) % 2)

\* cirq.apply_matrix_to_slices(target, matrix, slices=[a, b])
apply_matrix_to_slices(target, m, a, b) ==
    [i \in Basis |->
        IF i = a THEN AAdd(AMul(m[1][1], target[a]), AMul(m[1][2], target[b]))
        ELSE IF i = b THEN AAdd(AMul(m[2][1], target[a]), AMul(m[2][2], target[b]))
        ELSE target[i]]

DoubleApplyUnitaryHalfAngle(g, target) ==
    apply_matrix_to_slices(target, RxUnitary(RMul(RInt(-1), g.exponent)),
                           subspace_index(3), subspace_index(12))

DoubleApplyUnitaryWrongSign(g, target) ==
    apply_matrix_to_slices(target, RxUnitary(RMul(RInt(2), g.exponent)),
                           subspace_index(3), subspace_index(12))

\* DoubleExcitationGate._apply_unitary_ for a numeric exponent
DoubleApplyUnitary(g, target) ==
    apply_matrix_to_slices(target, RxUnitary(RMul(RInt(-2), g.exponent)),
                           subspace_index(3), subspace_index(12))

\* cirq.is_parameterized(gate): cirq.EigenGate._is_parameterized_ looks at
\* the exponent only
is_parameterized(g) == IsSymbolic(g.exponent)

\* what _apply_unitary_ did, and the state vector afterwards
Outcome(kind, target) == [kind |-> kind, target |-> target]

\* DoubleExcitationGate._apply_unitary_
DoubleApplyUnitaryOutcome(g, target) ==
    IF is_parameterized(g) THEN Outcome("None", target)
    ELSE Outcome("array", DoubleApplyUnitary(g, target))

\* the angle -np.pi * self.exponent * self.weights[n], as its coefficient of pi
CombinedRxAngle(g, n) == PyMul(PyMul(RInt(-1), g.exponent), g.weights[n])

\* CombinedDoubleExcitationGate._apply_unitary_; cirq.unitary raises
\* TypeError for a cirq.Rx whose angle is a sympy expression
CombinedApplyUnitaryOutcome(g, target) ==
    IF is_parameterized(g) THEN Outcome("None", target)
    ELSE IF \E n \in 1..3 : IsSymbolic(CombinedRxAngle(g, n)) THEN Outcome("TypeError", target)
    ELSE LET am == RxUnitary(CombinedRxAngle(g, 1))
             bm == RxUnitary(CombinedRxAngle(g, 2))
             cm == RxUnitary(CombinedRxAngle(g, 3))
             t1 == apply_matrix_to_slices(target, am, subspace_index(9), subspace_index(6))
             t2 == apply_matrix_to_slices(t1, bm, subspace_index(5), subspace_index(10))
         IN  Outcome("array",
                     apply_matrix_to_slices(t2, cm, subspace_index(3), subspace_index(12)))

\* CXXYYPowGate._apply_unitary_ and CYXXYPowGate._apply_unitary_:
\* cirq.apply_unitary(cirq.ControlledGate(sub_gate ** exponent), args,
\* default=None) gives the default when the sub-gate has no unitary.  For a
\* numeric exponent the array is cirq.ControlledGate's, on three qubits, which
\* the four-qubit state vector here does not follow: CanApply keeps
\* ApplyUnitary to the parameterized case for these classes.
ControlledApplyUnitaryOutcome(g, target) ==
    IF is_parameterized(g) THEN Outcome("None", target)
    ELSE Outcome("array", target)

apply_unitary(g, target) ==
    IF g.cls = "DoubleExcitationGate" THEN DoubleApplyUnitaryOutcome(g, target)
    ELSE IF g.cls = "CombinedDoubleExcitationGate" THEN CombinedApplyUnitaryOutcome(g, target)
    ELSE ControlledApplyUnitaryOutcome(g, target)

\* the gates whose _apply_unitary_ the exact amplitudes can follow
CanApply(g) ==
    IF is_parameterized(g) THEN TRUE
    ELSE IF g.cls = "DoubleExcitationGate" THEN OnGrid(g.exponent)
    ELSE IF g.cls = "CombinedDoubleExcitationGate"
         THEN \A n \in 1..3 :
                 IF IsSymbolic(g.weights[n]) THEN TRUE
                 ELSE OnGrid(RDiv(RMul(g.exponent, g.weights[n]), RInt(2)))
    ELSE FALSE

-----------------------------------------------------------------------------
(* LowRankTrotterAnsatz (openfermioncirq/variational/ansatzes), whose      *)
(* parameters are described in section 4.5 of the specification and used   *)
(* by low_rank_test.py.                                                    *)

\* A Hamiltonian as the ansatz reads it: the number of qubits, and the
\* optional terms whose coefficient vanishes
Hamiltonian(n, vanishing) == [n |-> n, vanishing |-> vanishing]

\* the Trotter steps of an ansatz built without saying how many
Iterations == 1

RECURSIVE Concat(_, _, _)
Concat(f, lo, hi) == IF lo > hi THEN <<>> ELSE f[lo] \o Concat(f, lo + 1, hi)

\* the terms of qubit p: its one-body energy, then one term per rank index j
OneBodyTerms(r, p) == << <<"U", p>> >> \o [j \in 1..r |-> <<"U", p, j - 1>>]

TwoBodyTermsAllOrderedPairs(n, r, p) ==
    Concat([q \in 0..(n - 1) |->
              IF q = p THEN <<>> ELSE [j \in 1..r |-> <<"V", p, q, j - 1>>]], 0, n - 1)

\* the terms of the pairs p < q: one per rank index j
TwoBodyTerms(n, r, p) ==
    Concat([q \in (p + 1)..(n - 1) |-> [j \in 1..r |-> <<"V", p, q, j - 1>>]], p + 1, n - 1)

Terms(n, r) ==
    Concat([p \in 0..(n - 1) |-> OneBodyTerms(r, p)], 0, n - 1)
    \o Concat([p \in 0..(n - 1) |-> TwoBodyTerms(n, r, p)], 0, n - 1)

\* LowRankTrotterAnsatz(hamiltonian, final_rank=..., include_all_cz=...,
\* include_all_z=...)
LowRankTrotterAnsatz(h, final_rank, include_all_cz, include_all_z) ==
    [built |-> TRUE, hamiltonian |-> h, final_rank |-> final_rank,
     include_all_cz |-> include_all_cz, include_all_z |-> include_all_z]

NoAnsatz ==
    [built |-> FALSE, hamiltonian |-> Hamiltonian(0, {}), final_rank |-> 0,
     include_all_cz |-> FALSE, include_all_z |-> FALSE]

\* a term has a parameter when its flag asks for all terms or its
\* coefficient does not vanish
Included(a, term) ==
    IF term[1] = "V" THEN a.include_all_cz \/ term \notin a.hamiltonian.vanishing
    ELSE a.include_all_z \/ term \notin a.hamiltonian.vanishing

IncludedTerms(a) ==
    SelectSeq(Terms(a.hamiltonian.n, a.final_rank), LAMBDA term : Included(a, term))

RECURSIVE Subscripts(_, _)
Subscripts(term, k) ==
    IF k > Len(term) THEN "" ELSE "_" \o ToString(term[k]) \o Subscripts(term, k + 1)

LetterWithoutTermIndex(term, i) ==
    term[1] \o "_" \o ToString(term[2]) \o "_" \o ToString(i)

\* the name of the parameter of a term in Trotter step i: the letter, the
\* qubit indices, the rank index, the step
LetterWithSubscripts(term, i) == term[1] \o Subscripts(term, 2) \o "_" \o ToString(i)

\* ansatz.params()
params(a) ==
    LET terms == IncludedTerms(a)
    IN  Concat([i \in 0..(Iterations - 1) |->
                  [k \in 1..Len(terms) |-> LetterWithSubscripts(terms[k], i)]],
               0, Iterations - 1)

ParamBoundsPerTerm(a) ==
    [k \in 1..(Iterations * Len(Terms(a.hamiltonian.n, a.final_rank))) |-> <<R(-1, 1), R(1, 1)>>]

\* ansatz.param_bounds(): (-1.0, 1.0) for every parameter
param_bounds(a) ==
    LET count == Len(params(a))
    IN  [k \in 1..count |-> <<R(-1, 1), R(1, 1)>>]

\* ansatz.default_initial_params(): one value per parameter, within its
\* bounds; the value is held as the name of the parameter it starts
default_initial_params(a) ==
    LET names == params(a)
    IN  [k \in 1..Len(names) |-> <<"initial", names[k]>>]

-----------------------------------------------------------------------------
(* The package namespaces: openfermioncirq/__init__.py and                 *)
(* openfermioncirq/gates/__init__.py.                                      *)

\* openfermioncirq/__init__.py, lines 13-34: the names of
\* "from openfermioncirq.gates import (...)", in order
TopLevelGateImports ==
    << "CRxxyy", "CRyxxy", "CXXYY", "CYXXY", "CXXYYPowGate", "CYXXYPowGate",
       "CombinedDoubleExcitationGate", "DoubleExcitation", "DoubleExcitationGate",
       "FSWAP", "FSwapPowGate", "Rxxyy", "Ryxxy", "Rzz", "rot11", "rot111",
       "XXYY", "XXYYPowGate", "YXXY", "YXXYPowGate" >>

FromImport(module, names) == [module |-> module, names |-> names]

\* openfermioncirq/gates/__init__.py, lines 15-43: its four statements
GatesInitStatements ==
    << FromImport("common_gates",
                  <<"FSWAP", "FSwapPowGate", "Rxxyy", "Ryxxy", "Rzz", "rot11",
                    "XXYY", "XXYYPowGate", "YXXY", "YXXYPowGate">>),
       FromImport("three_qubit_gates",
                  <<"CRxxyy", "CRyxxy", "CXXYY", "CYXXY", "CXXYYPowGate",
                    "CYXXYPowGate", "rot111">>),
       FromImport("fermionic_simulation",
                  <<"QuadraticFermionicSimulationGate", "CubicFermionicSimulationGate",
                    "QuarticFermionicSimulationGate">>),
       FromImport("four_qubit_gates", <<"DoubleExcitation", "DoubleExcitationGate">>) >>

Names(seq) == {seq[n] : n \in 1..Len(seq)}

\* the names a module of the gates subpackage defines at its top level;
\* common_gates and fermionic_simulation define at least what is imported
\* from them
ModuleDefines(module) ==
    IF module = "four_qubit_gates"
    THEN {"state_swap_eigen_component", "DoubleExcitationGate", "DoubleExcitation",
          "CombinedDoubleExcitationGate"}
    ELSE IF module = "three_qubit_gates"
    THEN {"rot111", "CXXYYPowGate", "CYXXYPowGate", "CRxxyy", "CRyxxy", "CXXYY", "CYXXY"}
    ELSE IF module = "common_gates" THEN Names(GatesInitStatements[1].names)
    ELSE Names(GatesInitStatements[3].names)

\* every gate name of the package
GateNames ==
    Names(TopLevelGateImports)
        \cup UNION {ModuleDefines(GatesInitStatements[n].module) :
                        n \in 1..Len(GatesInitStatements)}

\* the statements of the source that make Python import the package
\* openfermioncirq; each runs openfermioncirq/__init__.py first
ImportStatements ==
    {"import openfermioncirq as ofc",
     "from openfermioncirq.gates.four_qubit_gates import state_swap_eigen_component",
     "from openfermioncirq.gates import common_gates",
     "from openfermioncirq.variational.ansatzes import LowRankTrotterAnsatz",
     "import openfermioncirq.gates"}

NoLookup == [name |-> "", outcome |-> "none"]
NotImported ==
    [statement |-> "", status |-> "not started", pc_gates |-> 0, pc_top |-> 0,
     gates_ns |-> {}, top_ns |-> {}, looked |-> NoLookup]

-----------------------------------------------------------------------------
(* The state: two gate variables of a test, the constructor call that made *)
(* each, the state vector a circuit is run on, and one call of             *)
(* state_swap_eigen_component.                                             *)

VARIABLES
    obj,        \* obj[s]: the gate bound to variable s, or NoGate
    exc,        \* exc[s]: the exception the constructor call for s raised
    ctor,       \* ctor[s]: the keyword arguments of the call that made obj[s]
    input,      \* the state vector the circuit started from
    psi,        \* the state vector now
    pc,         \* how many operations of the decomposition have been applied
    via,        \* "none", "decompose" or "apply_unitary"
    swap_args,  \* the arguments of the call of state_swap_eigen_component
    swap_result, \* what the call returned or raised; NotCalled before it
    applied,    \* what obj[1]._apply_unitary_ did: "not called", "array"
                \* (psi holds it), "None", or the exception it raised
    ansatz,     \* ansatz[s]: the LowRankTrotterAnsatz bound to variable s
    powered,    \* the call obj[2] = obj[1]._with_exponent(e): the receiver
                \* and e; NotPowered before it
    imp         \* the import of the package: the statement that asked for
                \* it, how far the two __init__ files have run, the names
                \* bound so far, and one lookup ofc.<name> made afterwards

vars == <<obj, exc, ctor, input, psi, pc, via, swap_args, swap_result, applied,
         ansatz, powered, imp>>

Slots == 1..2
NoCall == Kwargs("none", <<>>, TRUE, None, None, None, None)
NotCalled == Raised("not called")
NoSwapArgs == [x |-> PyInt(0), y |-> PyInt(0), sign |-> 0, has_sign |-> FALSE]
ZeroVector == [j \in Basis |-> AZero]

NotPowered == [called |-> FALSE, self |-> NoGate, exponent |-> None]
IsGate(g) == g.cls # "none"

\* s = Cls(**kw)
New(s, kw) ==
    /\ ctor[s] = NoCall
    /\ via = "none"
    /\ ctor' = [ctor EXCEPT ![s] = kw]
    /\ LET r == Construct(kw)
       IN  /\ exc' = [exc EXCEPT ![s] = r.raised]
           /\ obj' = [obj EXCEPT ![s] = IF r.raised = "none" THEN r.value ELSE NoGate]
    /\ UNCHANGED <<input, psi, pc, via, swap_args, swap_result,
                 applied, ansatz, powered, imp>>

\* the module constant DoubleExcitation = DoubleExcitationGate()
DoubleExcitation ==
    DoubleExcitationGateInit(
        Kwargs("DoubleExcitationGate", <<>>, TRUE, None, None, None, None)).value

\* s = DoubleExcitation ** e: cirq.EigenGate.__pow__ calls
\* _with_exponent(self._exponent * e), which calls the constructor
PowDoubleExcitation(s, e) ==
    /\ ctor[s] = NoCall
    /\ via = "none"
    /\ ctor' = [ctor EXCEPT ![s] =
                  Kwargs("DoubleExcitationGate", <<>>, TRUE,
                         RMul(DoubleExcitation.exponent, e), None, None, None)]
    /\ obj' = [obj EXCEPT ![s] =
                  DoubleWithExponent(DoubleExcitation, RMul(DoubleExcitation.exponent, e))]
    /\ UNCHANGED <<exc, input, psi, pc, via, swap_args, swap_result,
                 applied, ansatz, powered, imp>>

\* a statement of ImportStatements is reached: Python starts to run
\* openfermioncirq/__init__.py
StartImport(statement) ==
    /\ imp.status = "not started"
    /\ imp' = [imp EXCEPT !.statement = statement, !.status = "running"]
    /\ UNCHANGED <<obj, exc, ctor, input, psi, pc, via, swap_args, swap_result,
                   applied, ansatz, powered>>

\* line 13 of openfermioncirq/__init__.py imports the gates subpackage: the
\* next "from ... import (...)" of gates/__init__.py binds its names, or
\* raises ImportError when the module does not define one of them
GatesInitStep ==
    /\ imp.status = "running"
    /\ imp.pc_gates < Len(GatesInitStatements)
    /\ LET st == GatesInitStatements[imp.pc_gates + 1]
       IN  imp' = IF Names(st.names) \subseteq ModuleDefines(st.module)
                  THEN [imp EXCEPT !.pc_gates = @ + 1,
                                   !.gates_ns = @ \cup Names(st.names)]
                  ELSE [imp EXCEPT !.status = "ImportError"]
    /\ UNCHANGED <<obj, exc, ctor, input, psi, pc, via, swap_args, swap_result,
                   applied, ansatz, powered>>

\* lines 13-34 of openfermioncirq/__init__.py: the next name of the list is
\* read from the gates namespace and bound, or ImportError is raised; after
\* the last one the package is imported
TopImportStep ==
    /\ imp.status = "running"
    /\ imp.pc_gates = Len(GatesInitStatements)
    /\ imp.pc_top < Len(TopLevelGateImports)
    /\ LET name == TopLevelGateImports[imp.pc_top + 1]
       IN  imp' = IF name \in imp.gates_ns
                  THEN [imp EXCEPT !.pc_top = @ + 1,
                                   !.top_ns = @ \cup {name},
                                   !.status = IF imp.pc_top + 1 = Len(TopLevelGateImports)
                                              THEN "done" ELSE "running"]
                  ELSE [imp EXCEPT !.status = "ImportError"]
    /\ UNCHANGED <<obj, exc, ctor, input, psi, pc, via, swap_args, swap_result,
                   applied, ansatz, powered>>

\* ofc.<name> in a test: the name resolves if the package was imported and
\* bound it; a failed import left no package to look into
Lookup(name) ==
    /\ imp.status \in {"done", "ImportError"}
    /\ imp.looked = NoLookup
    /\ imp' = [imp EXCEPT !.looked =
                  [name |-> name,
                   outcome |-> IF imp.status = "ImportError" THEN "ImportError"
                               ELSE IF name \in imp.top_ns THEN "resolved"
                               ELSE "AttributeError"]]
    /\ UNCHANGED <<obj, exc, ctor, input, psi, pc, via, swap_args, swap_result,
                   applied, ansatz, powered>>

\* obj[2] = obj[1]._with_exponent(e)
WithExponent(e) ==
    /\ obj[1].cls = "CombinedDoubleExcitationGate"
    /\ ctor[2] = NoCall
    /\ via = "none"
    /\ ~powered.called
    /\ obj' = [obj EXCEPT ![2] = CombinedWithExponent(obj[1], e)]
    /\ powered' = [called |-> TRUE, self |-> obj[1], exponent |-> e]
    /\ UNCHANGED <<exc, ctor, input, psi, pc, via, swap_args, swap_result, applied,
                   ansatz, imp>>

\* obj[s].absorb_exponent_into_weights()
Absorb(s) ==
    /\ obj[s].cls = "CombinedDoubleExcitationGate"
    /\ via = "none"
    /\ obj' = [obj EXCEPT ![s] = absorb_exponent_into_weights(obj[s])]
    /\ UNCHANGED <<exc, ctor, input, psi, pc, via, swap_args,
                 swap_result, applied, ansatz, powered, imp>>

\* the next operation of obj[1]'s decomposition acts on the state vector
DecomposeStep ==
    /\ IsGate(obj[1])
    /\ via \in {"none", "decompose"}
    /\ OpsOnGrid(Decompose(obj[1]))
    /\ pc < Len(Decompose(obj[1]))
    /\ psi' = ApplyOp(Decompose(obj[1])[pc + 1], psi)
    /\ pc' = pc + 1
    /\ via' = "decompose"
    /\ UNCHANGED <<obj, exc, ctor, input, swap_args, swap_result,
                 applied, ansatz, powered, imp>>

\* obj[1]._apply_unitary_ acts on the state vector
ApplyUnitary ==
    /\ IsGate(obj[1])
    /\ via = "none"
    /\ CanApply(obj[1])
    /\ psi' = apply_unitary(obj[1], psi).target
    /\ applied' = apply_unitary(obj[1], psi).kind
    /\ via' = "apply_unitary"
    /\ UNCHANGED <<obj, exc, ctor, input, pc, swap_args, swap_result,
                 ansatz, powered, imp>>

\* state_swap_eigen_component(x, y[, sign])
CallSwap ==
    /\ swap_result = NotCalled
    /\ swap_result' = CallSwapComponent(swap_args)
    /\ UNCHANGED <<obj, exc, ctor, input, psi, pc, via, swap_args,
                 applied, ansatz, powered, imp>>

\* s = LowRankTrotterAnsatz(h, final_rank=r, include_all_cz=cz, include_all_z=z)
NewAnsatz(s, h, r, cz, z) ==
    /\ ~ansatz[s].built
    /\ ansatz' = [ansatz EXCEPT ![s] = LowRankTrotterAnsatz(h, r, cz, z)]
    /\ UNCHANGED <<obj, exc, ctor, input, psi, pc, via, swap_args,
                 swap_result, applied, powered, imp>>

-----------------------------------------------------------------------------
(* Inputs *)

\* exponents of the simulated DoubleExcitationGate: (3n - 8)/8 for n = 0..MaxSimExp
MaxSimExp == 9
SimExponents == {R(3 * n - 8, 8) : n \in 0..MaxSimExp} \cup {RInt(0), RInt(1)}

Uniform == [j \in Basis |-> AHalf(AHalf(AOne))]
SimInputs == {Ket(0), Uniform} \cup {VAdd(Ket(0), Ket(j)) : j \in 1..15}

InitGates ==
    /\ obj = [s \in Slots |-> NoGate]
    /\ exc = [s \in Slots |-> "none"]
    /\ ctor = [s \in Slots |-> NoCall]
    /\ pc = 0
    /\ via = "none"
    /\ applied = "not called"
    /\ ansatz = [s \in Slots |-> NoAnsatz]
    /\ powered = NotPowered
    /\ imp = NotImported

InitNoSwap ==
    /\ swap_args = NoSwapArgs
    /\ swap_result = NotCalled

(* DoubleExcitationGate on a state vector *)
InitDouble ==
    /\ InitGates
    /\ InitNoSwap
    /\ input \in SimInputs
    /\ psi = input

DoubleSimKwargs ==
    {Kwargs("DoubleExcitationGate", <<>>, TRUE, e, None, None, None) : e \in SimExponents}

NextDouble ==
    \/ \E kw \in DoubleSimKwargs : New(1, kw)
    \/ \E e \in SimExponents : PowDoubleExcitation(1, e)
    \/ DecomposeStep
    \/ ApplyUnitary

SpecDouble == InitDouble /\ [][NextDouble]_vars

-----------------------------------------------------------------------------
(* Properties of DoubleExcitationGate on a state vector *)

Decomposed == via = "decompose" /\ pc = Len(Decompose(obj[1]))

\* out = c * expected for a complex number c of modulus 1 (expected[0] # 0)
UpToGlobalPhase(out, expected) ==
    /\ expected[0] # AZero
    /\ AMul(out[0], AConj(out[0])) = AMul(expected[0], AConj(expected[0]))
    /\ \A i \in Basis : AMul(out[i], expected[0]) = AMul(out[0], expected[i])

\* C1: once every operation yielded by DoubleExcitationGate._decompose_ has
\* acted, in yield order, the state vector is the gate's unitary
\* sum_k e^{i pi e eigenvalue_k} projector_k applied to the input, up to a
\* global phase (exponents that are multiples of 1/8, not only integers).
C1_DoubleDecomposeIsUnitary ==
    (obj[1].cls = "DoubleExcitationGate" /\ Decomposed)
        => UpToGlobalPhase(psi, EigenUnitaryApply(obj[1], input))

C1_Witness ==
    /\ obj[1].cls = "DoubleExcitationGate"
    /\ Decomposed
    /\ obj[1].exponent = R(1, 8)
    /\ input = VAdd(Ket(0), Ket(3))
    /\ psi[12] # AZero
    /\ psi[3] # AZero

\* C3: DoubleExcitationGate._apply_unitary_ returns the state that the
\* eigen-decomposition's unitary gives, for every input, and leaves every
\* amplitude other than those of 0011 and 1100 as it was.
C3_ApplyUnitaryIsEigenUnitary ==
    (obj[1].cls = "DoubleExcitationGate" /\ via = "apply_unitary")
        => /\ psi = EigenUnitaryApply(obj[1], input)
           /\ \A i \in Basis \ {3, 12} : psi[i] = input[i]

C3_Witness ==
    /\ obj[1].cls = "DoubleExcitationGate"
    /\ via = "apply_unitary"
    /\ obj[1].exponent = R(-5, 8)
    /\ input = VAdd(Ket(0), Ket(12))
    /\ psi[3] # AZero
    /\ psi[12] # input[12]

NegatedAt3And12(v) == [i \in Basis |-> IF i \in {3, 12} THEN ANeg(v[i]) ELSE v[i]]

\* C9: DoubleExcitation**1 and DoubleExcitation**-1 negate exactly the
\* amplitudes at indices 3 and 12, up to a global phase, whether applied by
\* _apply_unitary_ or by the decomposition; the uniform state [1]*16/4
\* becomes [1,1,1,-1,1,1,1,1,1,1,1,1,-1,1,1,1]/4.
C9_HalfTurnNegates3And12 ==
    (/\ obj[1].cls = "DoubleExcitationGate"
     /\ obj[1].exponent \in {RInt(1), RInt(-1)}
     /\ (via = "apply_unitary" \/ Decomposed))
        => /\ UpToGlobalPhase(psi, NegatedAt3And12(input))
           /\ (via = "apply_unitary" /\ input = Uniform)
                 => psi = [i \in Basis |->
                             IF i \in {3, 12} THEN ANeg(AHalf(AHalf(AOne)))
                             ELSE AHalf(AHalf(AOne))]

C9_Witness ==
    /\ obj[1].exponent = RInt(-1)
    /\ via = "apply_unitary"
    /\ input = Uniform
    /\ psi[3] = ANeg(AHalf(AHalf(AOne)))
    /\ psi[4] = AHalf(AHalf(AOne))


-----------------------------------------------------------------------------
(* CombinedDoubleExcitationGate on a state vector *)

\* weights of the simulated gate: (n - 1)/2 for n = 0..MaxSimWeight
MaxSimWeight == 1
SimWeights == {R(n - 1, 2) : n \in 0..MaxSimWeight}

CombinedSimInputs == {Ket(0)} \cup {VAdd(Ket(0), Ket(j)) : j \in 1..15}

InitCombined ==
    /\ InitGates
    /\ InitNoSwap
    /\ input \in CombinedSimInputs
    /\ psi = input

\* CombinedDoubleExcitationGate(w), CombinedDoubleExcitationGate(w, exponent=-1)
\* and CombinedDoubleExcitationGate(w, False, exponent=3)
CombinedSimKwargs ==
    {Kwargs("CombinedDoubleExcitationGate", <<w0, w1, w2>>, o[1], o[2], None, None, None) :
        w0 \in SimWeights, w1 \in SimWeights, w2 \in SimWeights,
        o \in {<<TRUE, None>>, <<TRUE, RInt(-1)>>, <<FALSE, RInt(3)>>}}

NextCombined ==
    \/ \E kw \in CombinedSimKwargs : New(1, kw)
    \/ DecomposeStep

SpecCombined == InitCombined /\ [][NextCombined]_vars

\* C2: once basis_change, controlled_swaps and the reversed basis_change
\* yielded by CombinedDoubleExcitationGate._decompose_ have acted, with CZ
\* exponents (exponent/4) * M * weights, the state vector is the gate's
\* unitary applied to the input, up to a global phase.
C2_CombinedDecomposeIsUnitary ==
    (obj[1].cls = "CombinedDoubleExcitationGate" /\ Decomposed)
        => UpToGlobalPhase(psi, EigenUnitaryApply(obj[1], input))

C2_Witness ==
    /\ obj[1].cls = "CombinedDoubleExcitationGate"
    /\ Decomposed
    /\ obj[1].exponent = RInt(3)
    /\ obj[1].weights = <<R(-1, 2), RInt(0), R(-1, 2)>>
    /\ input = VAdd(Ket(0), Ket(9))
    /\ psi[6] # AZero
    /\ psi[9] # AZero


-----------------------------------------------------------------------------
(* Construction of one gate from every combination of angle arguments *)

\* exponents n/2 for n = -2..MaxExpNum
MaxExpNum == 3
InitExponents == {R(n, 2) : n \in (-2)..MaxExpNum}
\* rads 0 and -pi/2, degs 0 and 270, duration 0 and 3 pi/4
InitRads == {RInt(0), R(-1, 2)}
InitDegs == {RInt(0), RInt(270)}
InitDurations == {RInt(0), R(3, 4)}

\* weights 1, -2, 4, ...: (-2)^n for n = 0..MaxWeightIdx
MaxWeightIdx == 1
Weights == {RInt((IF n % 2 = 1 THEN -1 ELSE 1) * Pow2(n)) : n \in 0..MaxWeightIdx}
WeightTriples == {<<w0, w1, w2>> : w0 \in Weights, w1 \in Weights, w2 \in Weights}

OrNone(S) == S \cup {None}

InitKwargs ==
    {Kwargs(c[1], c[2], c[3], e, r, d, t) :
        c \in {<<"DoubleExcitationGate", <<>>, TRUE>>}
              \cup {<<"CombinedDoubleExcitationGate", w, a>> :
                       w \in WeightTriples, a \in BOOLEAN},
        e \in OrNone(InitExponents), r \in OrNone(InitRads),
        d \in OrNone(InitDegs), t \in OrNone(InitDurations)}

InitOne ==
    /\ InitGates
    /\ InitNoSwap
    /\ input = ZeroVector
    /\ psi = ZeroVector

NextInit ==
    \/ \E kw \in InitKwargs : New(1, kw)
    \/ Absorb(1)

SpecInit == InitOne /\ [][NextInit]_vars

\* The angle a call asks for, in half-turns, as the documentation of the
\* constructors states it
HalfTurnsAsked(kw) ==
    IF kw.exponent # None THEN kw.exponent
    ELSE IF kw.rads # None THEN kw.rads                       \* (c pi) / pi
    ELSE IF kw.degs # None THEN R(kw.degs[1], 180 * kw.degs[2])
    ELSE IF kw.duration # None THEN R(2 * kw.duration[1], kw.duration[2])
    ELSE RInt(1)

Congruent(x, y, m) == RIsInt(RDiv(RSub(x, y), RInt(m)))
InRange04(x) == ~RLess(x, RInt(0)) /\ RLess(x, RInt(4))

Constructed(s) == ctor[s] # NoCall /\ exc[s] = "none"

\* the step that binds slot 1 to a new CombinedDoubleExcitationGate
CombinedBuilt ==
    /\ ctor[1] = NoCall
    /\ ctor'[1].cls = "CombinedDoubleExcitationGate"
    /\ exc'[1] = "none"

\* C5: absorb_exponent_into_weights leaves the operator as it was: the
\* phases e^{i pi exponent eigenvalue_k} (held modulo 2) and projectors of
\* the eigen-decomposition, and the triple weight_i * exponent modulo 4, are
\* the same before and after the call.
C5_AbsorbKeepsOperator ==
    [][Absorb(1) =>
          /\ EigenPhases(obj'[1]) = EigenPhases(obj[1])
          /\ [n \in 1..7 |-> EigenComponents(obj'[1])[n].m]
               = [n \in 1..7 |-> EigenComponents(obj[1])[n].m]
          /\ \A n \in 1..3 :
                Congruent(RMul(obj'[1].weights[n], obj'[1].exponent),
                          RMul(obj[1].weights[n], obj[1].exponent), 4)]_vars

\* a gate built with absorb_exponent=False whose call has changed it
C5_Witness ==
    /\ Constructed(1)
    /\ ctor[1].cls = "CombinedDoubleExcitationGate"
    /\ ~ctor[1].absorb_exponent
    /\ ctor[1].weights = <<RInt(-2), RInt(1), RInt(-2)>>
    /\ ctor[1].exponent = R(3, 2)
    /\ obj[1].exponent = RInt(1)
    /\ obj[1].weights = <<RInt(1), R(3, 2), RInt(1)>>

\* C6: a CombinedDoubleExcitationGate built with absorb_exponent=True has
\* exponent exactly 1 and weights exactly (w_i * e) mod 4, each in [0, 4);
\* built with absorb_exponent=False it keeps the weights w and exponent e.
C6_ConstructorAbsorbs ==
    [][CombinedBuilt =>
          LET kw == ctor'[1]
              e == HalfTurnsAsked(kw)
              g == obj'[1]
          IN  IF kw.absorb_exponent
              THEN /\ g.exponent = RInt(1)
                   /\ \A n \in 1..3 :
                         /\ InRange04(g.weights[n])
                         /\ Congruent(g.weights[n], RMul(kw.weights[n], e), 4)
              ELSE /\ g.exponent = e
                   /\ g.weights = kw.weights]_vars

C6_Witness ==
    /\ Constructed(1)
    /\ ctor[1].cls = "CombinedDoubleExcitationGate"
    /\ ctor[1].absorb_exponent
    /\ ctor[1].weights = <<RInt(-2), RInt(1), RInt(1)>>
    /\ ctor[1].degs = RInt(270)
    /\ obj[1].exponent = RInt(1)
    /\ obj[1].weights = <<RInt(1), R(3, 2), R(3, 2)>>

GivenCount(kw) ==
    (IF kw.exponent = None THEN 0 ELSE 1) + (IF kw.rads = None THEN 0 ELSE 1)
    + (IF kw.degs = None THEN 0 ELSE 1) + (IF kw.duration = None THEN 0 ELSE 1)

\* C8: a constructor call of either class with two or more of exponent,
\* rads, degs, duration not None (0 included) raises ValueError and binds no
\* gate; with none or one of them the call returns a gate of the class.
C8_RedundantAnglesRaise ==
    ctor[1] # NoCall =>
        IF GivenCount(ctor[1]) >= 2
        THEN exc[1] = "ValueError" /\ obj[1] = NoGate
        ELSE exc[1] = "none" /\ obj[1].cls = ctor[1].cls

C8_Witness ==
    /\ ctor[1].cls = "DoubleExcitationGate"
    /\ ctor[1].exponent = RInt(0)
    /\ ctor[1].duration = RInt(0)
    /\ ctor[1].rads = None
    /\ exc[1] = "ValueError"
    /\ obj[1] = NoGate


-----------------------------------------------------------------------------
(* Equality of two gates *)

\* DoubleExcitationGate(), and each angle form with values that name the
\* rotations 0, 1/2, 3/4, 3/2 and -1/2 half-turns
DoubleEqKwargs ==
    {Kwargs("DoubleExcitationGate", <<>>, TRUE, a[1], a[2], a[3], a[4]) :
        a \in {<<None, None, None, None>>}
              \cup {<<e, None, None, None>> :
                       e \in {RInt(0), R(1, 2), R(3, 4), R(3, 2), R(-1, 2)}}
              \cup {<<None, r, None, None>> : r \in {R(1, 2), R(-1, 2)}}
              \cup {<<None, None, d, None>> : d \in {RInt(90), RInt(-90)}}
              \cup {<<None, None, None, t>> : t \in {R(-3, 4), R(-1, 4)}}}

\* CombinedDoubleExcitationGate(w[, absorb_exponent]) with no angle, with
\* exponent 2 or -1/2, or with -1/2 half-turns as rads, degs or duration
CombinedEqKwargs ==
    {Kwargs("CombinedDoubleExcitationGate", w, ab, a[1], a[2], a[3], a[4]) :
        w \in WeightTriples, ab \in BOOLEAN,
        a \in {<<None, None, None, None>>,
               <<RInt(2), None, None, None>>,
               <<R(-1, 2), None, None, None>>,
               <<None, R(-1, 2), None, None>>,
               <<None, None, RInt(-90), None>>,
               <<None, None, None, R(-1, 4)>>}}

InitEq ==
    /\ InitGates
    /\ InitNoSwap
    /\ input = ZeroVector
    /\ psi = ZeroVector

NextEq ==
    \E s \in Slots : \E kw \in DoubleEqKwargs \cup CombinedEqKwargs : New(s, kw)

SpecEq == InitEq /\ [][NextEq]_vars

BothBuilt(cls) ==
    /\ Constructed(1) /\ Constructed(2)
    /\ ctor[1].cls = cls /\ ctor[2].cls = cls

\* C4: two CombinedDoubleExcitationGate instances compare equal if and only
\* if, for each term i, weight_i * exponent of the one is congruent modulo 4
\* to that of the other, whatever the split between weight and exponent, the
\* angle form and the absorb_exponent flag of the two calls.
C4_CombinedEqualityIsMod4 ==
    BothBuilt("CombinedDoubleExcitationGate") =>
        (GateEq(obj[1], obj[2])
            <=> \A n \in 1..3 :
                   Congruent(RMul(ctor[1].weights[n], HalfTurnsAsked(ctor[1])),
                             RMul(ctor[2].weights[n], HalfTurnsAsked(ctor[2])), 4))

\* equal gates from different weights, different angle forms and different
\* flags, whose products differ by 4 in every term
C4_Witness ==
    /\ BothBuilt("CombinedDoubleExcitationGate")
    /\ GateEq(obj[1], obj[2])
    /\ ctor[1].weights = <<RInt(1), RInt(1), RInt(1)>>
    /\ ctor[1].exponent = RInt(2)
    /\ ctor[1].absorb_exponent
    /\ ctor[2].weights = <<RInt(-2), RInt(-2), RInt(-2)>>
    /\ ctor[2].exponent = None /\ ctor[2].degs = None /\ ctor[2].rads = None
    /\ ctor[2].duration = None
    /\ ~ctor[2].absorb_exponent

\* C7: two DoubleExcitationGate instances compare equal exactly when the
\* angles asked for (e, rads/pi, degs/180, 2*duration/pi, 1 by default) are
\* congruent modulo 2; exponents 0, 0.5, 0.75 and 1.5 are pairwise unequal.
C7_DoubleEqualityIsMod2 ==
    BothBuilt("DoubleExcitationGate") =>
        /\ GateEq(obj[1], obj[2])
              <=> Congruent(HalfTurnsAsked(ctor[1]), HalfTurnsAsked(ctor[2]), 2)
        /\ (/\ ctor[1].exponent \in {RInt(0), R(1, 2), R(3, 4), R(3, 2)}
            /\ ctor[2].exponent \in {RInt(0), R(1, 2), R(3, 4), R(3, 2)}
            /\ ctor[1].exponent # ctor[2].exponent)
               => ~GateEq(obj[1], obj[2])

\* exponent=1.5 and duration=-0.5*pi/2 name the same gate
C7_Witness ==
    /\ BothBuilt("DoubleExcitationGate")
    /\ ctor[1].exponent = R(3, 2)
    /\ ctor[2].duration = R(-1, 4)
    /\ GateEq(obj[1], obj[2])
    /\ obj[1].exponent # obj[2].exponent


-----------------------------------------------------------------------------
(* One call of state_swap_eigen_component *)

\* strings of at most MaxLen characters
MaxLen == 2
RECURSIVE StringsOver(_, _)
StringsOver(alphabet, n) ==
    IF n = 0 THEN {<<>>}
    ELSE StringsOver(alphabet, n - 1)
         \cup {Append(w, ch) : w \in {v \in StringsOver(alphabet, n - 1) : Len(v) = n - 1},
                               ch \in alphabet}

SwapValues == {PyStr(w) : w \in StringsOver({"0", "1", "a"}, MaxLen)} \cup {PyInt(0)}

SwapArgs ==
    {[x |-> x, y |-> y, sign |-> sg[1], has_sign |-> sg[2]] :
        x \in SwapValues, y \in SwapValues,
        sg \in {<<-1, TRUE>>, <<0, TRUE>>, <<1, TRUE>>, <<2, TRUE>>, <<0, FALSE>>}}

InitSwap ==
    /\ InitGates
    /\ input = ZeroVector
    /\ psi = ZeroVector
    /\ swap_args \in SwapArgs
    /\ swap_result = NotCalled

NextSwap == CallSwap

SpecSwap == InitSwap /\ [][NextSwap]_vars

IsBinaryString(v) == v.t = "str" /\ Chars(v.v) \subseteq {"0", "1"}

\* the number a 0-1 string writes in base 2, most significant digit first
RECURSIVE BinaryValue(_, _)
BinaryValue(chars, k) ==
    IF k > Len(chars) THEN 0
    ELSE (IF chars[k] = "1" THEN Pow2(Len(chars) - k) ELSE 0) + BinaryValue(chars, k + 1)

\* the sign the call asks for: +1 when the argument is left out
SignAsked(a) == IF a.has_sign THEN a.sign ELSE 1

ValidSwapArgs(a) ==
    /\ IsBinaryString(a.x) /\ IsBinaryString(a.y)
    /\ Len(a.x.v) = Len(a.y.v)
    /\ a.x.v # a.y.v
    /\ SignAsked(a) \in {-1, 1}

\* C10: for equal-length 0-1 strings x # y and sign -1 or +1 (+1 when left
\* out), state_swap_eigen_component returns a 2^len(x) by 2^len(x) real
\* symmetric matrix whose only non-zero entries are 0.5 at (i, i) and (j, j)
\* and sign * 0.5 at (i, j) and (j, i), for i = int(x, 2) and j = int(y, 2).
C10_SwapComponentEntries ==
    (swap_result # NotCalled /\ ValidSwapArgs(swap_args)) =>
        LET i == BinaryValue(swap_args.x.v, 1)
            j == BinaryValue(swap_args.y.v, 1)
            m == swap_result.value
            idx == 0..(Pow2(Len(swap_args.x.v)) - 1)
        IN  /\ swap_result.raised = "none"
            /\ DOMAIN m = idx
            /\ \A a \in idx :
                  /\ DOMAIN m[a] = idx
                  /\ \A b \in idx :
                        /\ m[a][b] = m[b][a]
                        /\ m[a][b] =
                             IF a = b /\ a \in {i, j} THEN R(1, 2)
                             ELSE IF {a, b} = {i, j} THEN R(SignAsked(swap_args), 2)
                             ELSE RInt(0)

C10_Witness ==
    /\ swap_args.x = PyStr(<<"0", "1">>)
    /\ swap_args.y = PyStr(<<"1", "0">>)
    /\ swap_args.has_sign /\ swap_args.sign = -1
    /\ swap_result.raised = "none"
    /\ swap_result.value[1][2] = R(-1, 2)
    /\ swap_result.value[2][1] = R(-1, 2)
    /\ swap_result.value[2][2] = R(1, 2)
    /\ swap_result.value[0][0] = RInt(0)

\* C11: state_swap_eigen_component raises TypeError whenever x or y is not a
\* string, whatever else is wrong; with two strings it raises ValueError if
\* the lengths differ, a character is outside {0, 1}, x = y, or sign is not
\* -1 or 1; in every other case it returns a matrix.
C11_SwapComponentErrors ==
    swap_result # NotCalled =>
        LET a == swap_args
            strings == a.x.t = "str" /\ a.y.t = "str"
            bad_value == \/ Len(a.x.v) # Len(a.y.v)
                         \/ \E n \in 1..Len(a.x.v) : a.x.v[n] \notin {"0", "1"}
                         \/ \E n \in 1..Len(a.y.v) : a.y.v[n] \notin {"0", "1"}
                         \/ a.x.v = a.y.v
                         \/ SignAsked(a) \notin {-1, 1}
        IN  /\ ~strings => swap_result.raised = "TypeError"
            /\ (strings /\ bad_value) => swap_result.raised = "ValueError"
            /\ (strings /\ ~bad_value) =>
                  /\ swap_result.raised = "none"
                  /\ DOMAIN swap_result.value = 0..(Pow2(Len(a.x.v)) - 1)

\* state_swap_eigen_component(0, 'a1', 2): a non-string first argument with a
\* longer, non-binary second argument and a bad sign raises TypeError
C11_Witness ==
    /\ swap_args.x = PyInt(0)
    /\ swap_args.y = PyStr(<<"a", "1">>)
    /\ swap_args.has_sign /\ swap_args.sign = 2
    /\ swap_result.raised = "TypeError"

-----------------------------------------------------------------------------
(* _apply_unitary_ of gates built with a sympy.Symbol *)

GateClasses ==
    {"DoubleExcitationGate", "CombinedDoubleExcitationGate", "CXXYYPowGate", "CYXXYPowGate"}

\* Cls(exponent=a) for a Symbol, a number or no argument; for the four-qubit
\* classes also the Symbol as rads, degs or duration, and for the combined
\* gate both values of absorb_exponent
SymbolicKwargs ==
    {Kwargs(cls, IF cls = "CombinedDoubleExcitationGate" THEN w ELSE <<>>, ab,
            a[1], a[2], a[3], a[4]) :
        cls \in GateClasses,
        w \in {<<RInt(1), RInt(1), RInt(1)>>, <<R(1, 2), RInt(0), RInt(-1)>>},
        ab \in BOOLEAN,
        a \in {<<Symbol("theta"), None, None, None>>,
               <<None, Symbol("theta"), None, None>>,
               <<None, None, Symbol("theta"), None>>,
               <<None, None, None, Symbol("theta")>>,
               <<R(1, 2), None, None, None>>,
               <<None, None, None, None>>}}
    \ {kw \in [cls : {"CXXYYPowGate", "CYXXYPowGate"},
               weights : {<<>>}, absorb_exponent : BOOLEAN,
               exponent : {None, R(1, 2), Symbol("theta")},
               rads : {None, Symbol("theta")}, degs : {None, Symbol("theta")},
               duration : {None, Symbol("theta")}] :
          kw.rads # None \/ kw.degs # None \/ kw.duration # None \/ ~kw.absorb_exponent}

InitSymbolic ==
    /\ InitGates
    /\ InitNoSwap
    /\ input \in {Ket(0), Uniform, VAdd(Ket(0), Ket(3)), VAdd(Ket(0), Ket(9))}
    /\ psi = input

NextSymbolic ==
    \/ \E kw \in SymbolicKwargs : New(1, kw)
    \/ ApplyUnitary

SpecSymbolic == InitSymbolic /\ [][NextSymbolic]_vars

\* C12: for every gate class, a gate constructed with a sympy.Symbol as its
\* exponent has an _apply_unitary_ that returns None, neither computing a
\* result nor raising; CombinedDoubleExcitationGate with the default
\* absorb_exponent=True included.
C12_SymbolicApplyUnitaryIsNone ==
    (/\ applied # "not called"
     /\ ctor[1].exponent # None
     /\ IsSymbolic(ctor[1].exponent))
        => applied = "None" /\ psi = input

\* CombinedDoubleExcitationGate(exponent=theta): the exponent was absorbed
\* into the weights, the gate's exponent is 1, and _apply_unitary_ raised
C12_Witness ==
    /\ ctor[1].cls = "CombinedDoubleExcitationGate"
    /\ ctor[1].absorb_exponent
    /\ ctor[1].exponent = Symbol("theta")
    /\ obj[1].exponent = RInt(1)
    /\ applied = "TypeError"

-----------------------------------------------------------------------------
(* Parameters of LowRankTrotterAnsatz *)

MaxQubits == 4
MaxRank == 2

\* Hamiltonians on 1..MaxQubits qubits with no, one or two vanishing coefficients
Hamiltonians ==
    {Hamiltonian(n, v) :
        n \in 1..MaxQubits,
        v \in {{}, {<<"U", 0>>}, {<<"V", 0, 1, 0>>}, {<<"U", 1, 0>>, <<"V", 0, 1, 1>>}}}

InitAnsatz ==
    /\ InitGates
    /\ InitNoSwap
    /\ input = ZeroVector
    /\ psi = ZeroVector

NextAnsatz ==
    \E s \in Slots : \E h \in Hamiltonians : \E r \in 1..MaxRank :
        \E cz \in BOOLEAN : \E z \in BOOLEAN : NewAnsatz(s, h, r, cz, z)

SpecAnsatz == InitAnsatz /\ [][NextAnsatz]_vars

ParamSet(a) == {params(a)[k] : k \in 1..Len(params(a))}

\* C13: with final_rank = r, include_all_cz = True and include_all_z = True
\* on n qubits, params() has exactly n + r * (n + n * (n - 1) / 2) entries;
\* 24 for n = 4, r = 2.
C13_ParamCountIncludeAll ==
    \A s \in Slots :
        (ansatz[s].built /\ ansatz[s].include_all_cz /\ ansatz[s].include_all_z) =>
            LET n == ansatz[s].hamiltonian.n
                r == ansatz[s].final_rank
            IN  /\ Len(params(ansatz[s])) = n + r * (n + (n * (n - 1)) \div 2)
                /\ (n = 4 /\ r = 2) => Len(params(ansatz[s])) = 24

\* n = 4, r = 2, both flags True, on a Hamiltonian with vanishing coefficients
C13_Witness ==
    /\ ansatz[1].built
    /\ ansatz[1].hamiltonian = Hamiltonian(4, {<<"U", 1, 0>>, <<"V", 0, 1, 1>>})
    /\ ansatz[1].final_rank = 2
    /\ ansatz[1].include_all_cz /\ ansatz[1].include_all_z
    /\ Len(params(ansatz[1])) = 24

\* C14: param_bounds() and default_initial_params() have one entry per
\* parameter of params(), and every bound is exactly (-1.0, 1.0).
C14_BoundsMatchParams ==
    \A s \in Slots :
        ansatz[s].built =>
            LET names == params(ansatz[s])
                bounds == param_bounds(ansatz[s])
                initial == default_initial_params(ansatz[s])
            IN  /\ Len(bounds) = Len(names)
                /\ Len(initial) = Len(names)
                /\ \A k \in 1..Len(bounds) : bounds[k] = <<RInt(-1), RInt(1)>>

\* an ansatz that leaves two terms out: 22 parameters, 22 bounds
C14_Witness ==
    /\ ansatz[1].built
    /\ ansatz[1].hamiltonian = Hamiltonian(4, {<<"U", 1, 0>>, <<"V", 0, 1, 1>>})
    /\ ansatz[1].final_rank = 2
    /\ ~ansatz[1].include_all_cz /\ ~ansatz[1].include_all_z
    /\ Len(params(ansatz[1])) = 22
    /\ Len(param_bounds(ansatz[1])) = 22

\* the 24 names of the 4-qubit, rank-2 ansatz
ExpectedNames ==
    {"U_0_0", "U_0_0_0", "U_0_1_0", "U_1_0", "U_1_0_0", "U_1_1_0",
     "U_2_0", "U_2_0_0", "U_2_1_0", "U_3_0", "U_3_0_0", "U_3_1_0",
     "V_0_1_0_0", "V_0_1_1_0", "V_0_2_0_0", "V_0_2_1_0",
     "V_0_3_0_0", "V_0_3_1_0", "V_1_2_0_0", "V_1_2_1_0",
     "V_1_3_0_0", "V_1_3_1_0", "V_2_3_0_0", "V_2_3_1_0"}

SameNamesAndDistinct ==
    /\ (ansatz[1].built /\ ansatz[2] = ansatz[1]) =>
          ParamSet(ansatz[1]) = ParamSet(ansatz[2])
    /\ \A s \in Slots :
          ansatz[s].built => Cardinality(ParamSet(ansatz[s])) = Len(params(ansatz[s]))

-----------------------------------------------------------------------------
(* Eigen-components of the four gate classes *)

\* gates of the four classes: the four-qubit ones with no angle or exponent
\* 3/2, the combined one over weights with zero, equal, negative and
\* fractional entries and both values of absorb_exponent
EigenKwargs ==
    {Kwargs(cls, IF cls = "CombinedDoubleExcitationGate" THEN w ELSE <<>>, ab,
            e, None, None, None) :
        cls \in GateClasses,
        w \in {<<RInt(1), RInt(1), RInt(1)>>, <<R(1, 2), RInt(0), RInt(-1)>>,
               <<RInt(-2), RInt(-2), RInt(3)>>},
        ab \in BOOLEAN,
        e \in {None, R(3, 2)}}

InitEigen ==
    /\ InitGates
    /\ InitNoSwap
    /\ input = ZeroVector
    /\ psi = ZeroVector

NextEigen == \E s \in Slots : \E kw \in EigenKwargs : New(s, kw)

SpecEigen == InitEigen /\ [][NextEigen]_vars

\* a Python float or int, as opposed to a complex number or a sympy expression
IsRealNumber(x) == Len(x) = 2 /\ x[1] \in Int /\ x[2] \in Nat \ {0}

\* C16: for every gate class, the projectors of _eigen_components are each
\* idempotent, pairwise orthogonal (product zero), sum to the identity of the
\* gate's dimension (16 or 8), and are paired with real eigenvalues.
C16_ProjectorsResolveIdentity ==
    \A s \in Slots :
        IsGate(obj[s]) =>
            LET comps == ComplexEigenComponents(obj[s])
                dim == IF obj[s].cls \in {"CXXYYPowGate", "CYXXYPowGate"} THEN 8 ELSE 16
            IN  /\ \A n \in 1..Len(comps) :
                      /\ DOMAIN comps[n].m = 0..(dim - 1)
                      /\ IsRealNumber(comps[n].ev)
                      /\ \A k \in 1..Len(comps) :
                            MatMul(comps[n].m, comps[k].m)
                               = IF n = k THEN comps[n].m ELSE MatZero(dim)
                /\ MatSum(comps, Len(comps)) = MatEye(dim)

\* a CYXXYPowGate (8 x 8, complex entries) beside a combined gate with a zero
\* weight (16 x 16, seven components)
C16_Witness ==
    /\ obj[1].cls = "CYXXYPowGate"
    /\ ComplexEigenComponents(obj[1])[2].m[5][6] = Cx(RInt(0), R(-1, 2))
    /\ obj[2].cls = "CombinedDoubleExcitationGate"
    /\ obj[2].weights[2] = RInt(0)
    /\ Len(ComplexEigenComponents(obj[2])) = 7

\* the number of ones in the binary form of i
RECURSIVE PopCount(_)
PopCount(i) == IF i = 0 THEN 0 ELSE (i % 2) + PopCount(i \div 2)

\* the three pairs of C17, as basis indices
ClaimedPairs ==
    << <<BinaryValue(<<"1", "0", "0", "1">>, 1), BinaryValue(<<"0", "1", "1", "0">>, 1)>>,
       <<BinaryValue(<<"0", "1", "0", "1">>, 1), BinaryValue(<<"1", "0", "1", "0">>, 1)>>,
       <<BinaryValue(<<"0", "0", "1", "1">>, 1), BinaryValue(<<"1", "1", "0", "0">>, 1)>> >>

\* 0.5 at (x, x) and (y, y), sign * 0.5 at (x, y) and (y, x), zero elsewhere
SwapProjector(x, y, sign) ==
    [a \in 0..15 |-> [b \in 0..15 |->
        IF a = b /\ a \in {x, y} THEN R(1, 2)
        ELSE IF {a, b} = {x, y} THEN R(sign, 2)
        ELSE RInt(0)]]

\* C17: CombinedDoubleExcitationGate._eigen_components returns exactly seven
\* components: eigenvalue 0 with the diagonal projector onto the 10 basis
\* states of Hamming weight # 2, and for each term i and sign the eigenvalue
\* weight_i * sign / 2 with the swap component of the pair (1001, 0110),
\* (0101, 1010), (0011, 1100) respectively; the pairs are disjoint, pair a
\* state with its bitwise complement, and cover the 6 states of weight 2.
C17_CombinedSevenComponents ==
    \A s \in Slots :
        obj[s].cls = "CombinedDoubleExcitationGate" =>
            LET comps == EigenComponents(obj[s])
                kept == {i \in 0..15 : PopCount(i) # 2}
            IN  /\ Len(comps) = 7
                /\ comps[1].ev = RInt(0)
                /\ Cardinality(kept) = 10
                /\ comps[1].m = [a \in 0..15 |-> [b \in 0..15 |->
                                    IF a = b /\ a \in kept THEN RInt(1) ELSE RInt(0)]]
                /\ \A i \in 1..3 : \A sign \in {-1, 1} :
                      LET n == 2 * i + (IF sign = 1 THEN 1 ELSE 0)
                      IN  /\ comps[n].ev = RDiv(RMul(obj[s].weights[i], RInt(sign)), RInt(2))
                          /\ comps[n].m = SwapProjector(ClaimedPairs[i][1], ClaimedPairs[i][2], sign)
                /\ \A i \in 1..3 : ClaimedPairs[i][1] + ClaimedPairs[i][2] = 15
                /\ {ClaimedPairs[i][k] : i \in 1..3, k \in 1..2} = (0..15) \ kept
                /\ Cardinality({ClaimedPairs[i][k] : i \in 1..3, k \in 1..2}) = 6

\* the gate with weights (1/2, 0, -1) kept as given: eigenvalues 0, -1/4,
\* 1/4, 0, 0, 1/2, -1/2
C17_Witness ==
    /\ obj[1].cls = "CombinedDoubleExcitationGate"
    /\ obj[1].weights = <<R(1, 2), RInt(0), RInt(-1)>>
    /\ [n \in 1..7 |-> EigenComponents(obj[1])[n].ev]
          = <<RInt(0), R(-1, 4), R(1, 4), RInt(0), RInt(0), R(1, 2), R(-1, 2)>>

\* the places where a matrix is not zero
Support(m) == {ab \in (DOMAIN m) \X (DOMAIN m) : m[ab[1]][ab[2]] # CxZero}

\* the value of the control (first) qubit in basis state k of three qubits
ControlBit(k) == k \div 4

\* C18: for CXXYYPowGate and CYXXYPowGate with any exponent, the unitary built
\* from _eigen_components maps every basis state whose control qubit is 0 to
\* itself, and the projectors of the eigenvalues -0.5 and +0.5 are supported
\* only on |101> and |110>, both of which have control = 1.
C18_ControlledIdentityOnControlZero ==
    \A s \in Slots :
        (IsGate(obj[s]) /\ obj[s].cls \in {"CXXYYPowGate", "CYXXYPowGate"}) =>
            LET U == ControlledEigenUnitary(obj[s])
                comps == ComplexEigenComponents(obj[s])
                nonzero == {n \in 1..Len(comps) : comps[n].ev # RInt(0)}
                b101 == BinaryValue(<<"1", "0", "1">>, 1)
                b110 == BinaryValue(<<"1", "1", "0">>, 1)
            IN  /\ \A k \in 0..7 : ControlBit(k) = 0 =>
                      \A a \in 0..7 : U[a][k] = IF a = k THEN AOne ELSE AZero
                /\ {comps[n].ev : n \in nonzero} = {R(-1, 2), R(1, 2)}
                /\ Cardinality(nonzero) = 2
                /\ \A n \in nonzero :
                      /\ Support(comps[n].m) = {b101, b110} \X {b101, b110}
                      /\ ControlBit(b101) = 1 /\ ControlBit(b110) = 1

\* both classes at exponent 3/2, where the unitary mixes |101> and |110>
C18_Witness ==
    /\ obj[1].cls = "CXXYYPowGate" /\ obj[2].cls = "CYXXYPowGate"
    /\ obj[1].exponent = R(3, 2) /\ obj[2].exponent = R(3, 2)
    /\ ControlledEigenUnitary(obj[1])[5][6] # AZero
    /\ ControlledEigenUnitary(obj[2])[5][6] # AZero
    /\ ControlledEigenUnitary(obj[1])[5][6] # ControlledEigenUnitary(obj[2])[5][6]

\* the qubit triples (control, a, b) out of four qubits
QubitTriples ==
    {qs \in (0..(NQubits - 1)) \X (0..(NQubits - 1)) \X (0..(NQubits - 1)) :
        Cardinality({qs[1], qs[2], qs[3]}) = 3}

\* the six-operation sequence of C19 with correction exponent c and
\* basis-change pair (B, B')
ClaimedSequence(qs, exponent, c, B, Bprime) ==
    << CNOT(qs[2], qs[3]), B, CCZPow(qs[1], qs[2], qs[3], exponent),
       CZPow(qs[1], qs[3], c), Bprime, CNOT(qs[2], qs[3]) >>

ClaimedBasisChange(cls, a) ==
    IF cls = "CXXYYPowGate" THEN <<H(a), H(a)>>
    ELSE <<XPow(a, R(1, 2)), XPow(a, R(-1, 2))>>

\* C19 as stated: both decompositions are CNOT(a,b), B, CCZ(control,a,b)**exponent,
\* CZ(control,b)**c, B', CNOT(a,b) with c half the gate's exponent, and
\* (B, B') = (H(a), H(a)) for XX+YY, (X(a)**0.5, X(a)**-0.5) for YX-XY.
C19_CorrectionIsHalfExponent ==
    \A s \in Slots :
        (IsGate(obj[s]) /\ obj[s].cls \in {"CXXYYPowGate", "CYXXYPowGate"}) =>
            \A qs \in QubitTriples :
                ControlledDecompose(obj[s], qs)
                    = ClaimedSequence(qs, obj[s].exponent,
                                      RDiv(obj[s].exponent, RInt(2)),
                                      ClaimedBasisChange(obj[s].cls, qs[2])[1],
                                      ClaimedBasisChange(obj[s].cls, qs[2])[2])

\* C19: the decompositions of CXXYYPowGate and CYXXYPowGate on
\* (control, a, b) are both the six operations CNOT(a,b), B,
\* CCZ(control,a,b)**exponent, CZ(control,b)**c, B', CNOT(a,b), with exactly
\* one doubly-controlled phase and one singly-controlled correction phase
\* whose exponent c is minus half the gate's exponent; they differ only in
\* (B, B'): (H(a), H(a)) for XX+YY, (X(a)**0.5, X(a)**-0.5) for YX-XY.
C19_CorrectionIsMinusHalfExponent ==
    \A s \in Slots :
        (IsGate(obj[s]) /\ obj[s].cls \in {"CXXYYPowGate", "CYXXYPowGate"}) =>
            \A qs \in QubitTriples :
                LET ops == ControlledDecompose(obj[s], qs)
                    other == ControlledDecompose(
                                 Gate(IF obj[s].cls = "CXXYYPowGate" THEN "CYXXYPowGate"
                                      ELSE "CXXYYPowGate", <<>>, obj[s].exponent), qs)
                IN  /\ ops = ClaimedSequence(qs, obj[s].exponent,
                                             RDiv(RNeg(obj[s].exponent), RInt(2)),
                                             ClaimedBasisChange(obj[s].cls, qs[2])[1],
                                             ClaimedBasisChange(obj[s].cls, qs[2])[2])
                    /\ Len(ops) = 6
                    /\ Cardinality({n \in 1..Len(ops) : ops[n].g = "CCZ"}) = 1
                    /\ Cardinality({n \in 1..Len(ops) : ops[n].g = "CZ"}) = 1
                    /\ {n \in 1..Len(ops) : ops[n] # other[n]} = {2, 5}

\* a CXXYYPowGate and a CYXXYPowGate of exponent 3/2, whose correction
\* CZ(control, b) has exponent -3/4
C19_Witness ==
    /\ obj[1].cls = "CXXYYPowGate" /\ obj[2].cls = "CYXXYPowGate"
    /\ obj[1].exponent = R(3, 2) /\ obj[2].exponent = R(3, 2)
    /\ ControlledDecompose(obj[1], <<0, 1, 2>>)[4] = CZPow(0, 2, R(-3, 4))
    /\ ControlledDecompose(obj[2], <<0, 1, 2>>)[5] = XPow(1, R(-1, 2))

\* with the code's correction exponent the decomposition on qubits (0, 1, 2)
\* is the unitary of the eigen-components: column k of the unitary is the
\* image of |k>|0>
ControlledDecomposeImplementsGate ==
    \A s \in Slots :
        (IsGate(obj[s]) /\ obj[s].cls \in {"CXXYYPowGate", "CYXXYPowGate"}) =>
            LET ops == ControlledDecompose(obj[s], <<0, 1, 2>>)
                U == ControlledEigenUnitary(obj[s])
            IN  \A k \in 0..7 :
                    LET out == ApplyOps(ops, Len(ops), Ket(2 * k))
                    IN  \A j \in Basis :
                            out[j] = IF j % 2 = 0 THEN U[j \div 2][k] ELSE AZero

\* gates built with either value of absorb_exponent, with weights inside and
\* outside [0, 4), and the exponents handed to _with_exponent
PowWeights ==
    {<<RInt(1), RInt(1), RInt(1)>>, <<R(1, 2), RInt(0), RInt(3)>>,
     <<RInt(-2), RInt(-2), RInt(3)>>, <<RInt(5), R(1, 2), RInt(-1)>>}

PowKwargs ==
    {Kwargs("CombinedDoubleExcitationGate", w, ab, e, None, None, None) :
        w \in PowWeights, ab \in BOOLEAN, e \in {None, R(1, 2), R(3, 2)}}

NewExponents == {RInt(1), R(1, 2), RInt(-1), R(3, 2), RInt(2)}

InitPow ==
    /\ InitGates
    /\ InitNoSwap
    /\ input = ZeroVector
    /\ psi = ZeroVector

NextPow ==
    \/ \E kw \in PowKwargs : New(1, kw)
    \/ \E e \in NewExponents : WithExponent(e)

SpecPow == InitPow /\ [][NextPow]_vars

\* _with_exponent(e') of g gave a gate of exponent exactly e' whose per-term
\* values are g.weights[i] * e' modulo 4
PowKeepsWeights ==
    /\ obj[2].exponent = powered.exponent
    /\ \A n \in 1..3 :
          RMod(RMul(obj[2].weights[n], obj[2].exponent), 4)
             = RMod(RMul(powered.self.weights[n], powered.exponent), 4)
    /\ (powered.exponent = powered.self.exponent => GateEq(obj[2], powered.self))

\* C20: for every CombinedDoubleExcitationGate g with weights (w0, w1, w2),
\* built with either value of absorb_exponent, and every numeric e',
\* g._with_exponent(e') is a gate with exponent exactly e' whose per-term
\* values are w_i * e' modulo 4; in particular g._with_exponent(g.exponent)
\* compares equal to g.
C20_WithExponentKeepsWeights == powered.called => PowKeepsWeights

\* g = CombinedDoubleExcitationGate((-2, -2, 3), False, exponent=0.5) and
\* g._with_exponent(0.5): the weights -2 were reduced to 2 before the
\* exponent was set
C20_Witness ==
    /\ powered.called
    /\ powered.self = Gate("CombinedDoubleExcitationGate",
                           <<RInt(-2), RInt(-2), RInt(3)>>, R(1, 2))
    /\ powered.exponent = R(1, 2)
    /\ obj[2] = Gate("CombinedDoubleExcitationGate",
                     <<RInt(2), RInt(2), RInt(3)>>, R(1, 2))
    /\ ~GateEq(obj[2], powered.self)

\* where the weights of g are already in [0, 4), as after absorption, or e'
\* is an integer, _with_exponent does keep the per-term values
WithExponentKeepsReducedWeights ==
    (/\ powered.called
     /\ \/ \A n \in 1..3 : powered.self.weights[n] = RMod(powered.self.weights[n], 4)
        \/ powered.exponent[2] = 1)
        => PowKeepsWeights

\* the unitary of a three-qubit gate's eigen-components acting on qubits
\* (0, 1, 2) of the four-qubit state vector v; qubit 3 is left alone
ControlledEigenUnitaryApply(g, v) ==
    LET U == ControlledEigenUnitary(g)
    IN  [j \in Basis |->
            ASum([k \in 1..8 |->
                     IF v[2 * (k - 1) + (j % 2)] = AZero THEN AZero
                     ELSE AMul(U[j \div 2][k - 1], v[2 * (k - 1) + (j % 2)])], 1, 8)]

ControlledExponents == {RInt(0), R(1, 4), R(1, 2), RInt(1), R(3, 2), RInt(-1)}

ControlledKwargs ==
    {Kwargs(cls, <<>>, TRUE, e, None, None, None) :
        cls \in {"CXXYYPowGate", "CYXXYPowGate"}, e \in ControlledExponents \cup {None}}

\* every basis state, and three superpositions
ControlledInputs ==
    {Ket(i) : i \in Basis} \cup {Uniform, VAdd(Ket(10), Ket(12)), VAdd(Ket(2), Ket(11))}

InitControlled ==
    /\ InitGates
    /\ InitNoSwap
    /\ input \in ControlledInputs
    /\ psi = input

NextControlled ==
    \/ \E kw \in ControlledKwargs : New(1, kw)
    \/ DecomposeStep

SpecControlled == InitControlled /\ [][NextControlled]_vars

IsControlled(g) == g.cls \in {"CXXYYPowGate", "CYXXYPowGate"}

\* C21: for CXXYYPowGate and CYXXYPowGate with any exponent, once the six
\* operations yielded by _decompose_ have acted the state vector is the
\* unitary of _eigen_components applied to the input; the operations after
\* the CCZ/CZ pair undo those before it; a basis state with control = 0, or
\* with equal bits in a and b, is left as it was; and |101>, |110> are mapped
\* into their own span by the two-level rotation of the eigen-decomposition.
C21_ControlledDecomposeIsUnitary ==
    (IsControlled(obj[1]) /\ Decomposed) =>
        LET ops == Decompose(obj[1])
            U == ControlledEigenUnitary(obj[1])
            kets == {i \in Basis : input = Ket(i)}
        IN  /\ psi = ControlledEigenUnitaryApply(obj[1], input)
            /\ Inverse(ops[5]) = ops[2] /\ Inverse(ops[6]) = ops[1]
            /\ ApplyOp(ops[6], ApplyOp(ops[5], ApplyOp(ops[2], ApplyOp(ops[1], input))))
                  = input
            /\ \A i \in kets :
                  IF Bit(i, 0) = 0 \/ Bit(i, 1) = Bit(i, 2)
                  THEN psi = input
                  ELSE LET partner == Flip(Flip(i, 1), 2)
                       IN  /\ \A j \in Basis \ {i, partner} : psi[j] = AZero
                           /\ psi[i] = U[i \div 2][i \div 2]
                           /\ psi[partner] = U[partner \div 2][i \div 2]

\* CYXXY ** 1.5 has been decomposed on |101>|0>: part of the amplitude has
\* moved to |110>|0>
C21_Witness ==
    /\ obj[1] = Gate("CYXXYPowGate", <<>>, R(3, 2))
    /\ Decomposed
    /\ input = Ket(10)
    /\ psi[12] # AZero /\ psi[10] # AZero
    /\ psi # input

InitImport ==
    /\ InitGates
    /\ InitNoSwap
    /\ input = ZeroVector
    /\ psi = ZeroVector

NextImport ==
    \/ \E statement \in ImportStatements : StartImport(statement)
    \/ GatesInitStep
    \/ TopImportStep
    \/ \E name \in GateNames : Lookup(name)

SpecImport == InitImport /\ [][NextImport]_vars

\* C22: every name the package top level imports from the gates subpackage
\* is exported by the gates subpackage's __init__, so that the import of the
\* package does not fail and each gate used through the public namespace,
\* ofc.CombinedDoubleExcitationGate included, resolves.
C22_TopLevelImportsAreExported ==
    /\ imp.pc_gates = Len(GatesInitStatements) =>
          Names(TopLevelGateImports) \subseteq imp.gates_ns
    /\ imp.status # "ImportError"
    /\ imp.looked.name \in Names(TopLevelGateImports) => imp.looked.outcome = "resolved"

\* "import openfermioncirq as ofc" stopped at the seventh name, with six
\* names bound, and ofc.CombinedDoubleExcitationGate was asked for
C22_Witness ==
    /\ imp.statement = "import openfermioncirq as ofc"
    /\ imp.status = "ImportError"
    /\ imp.pc_gates = Len(GatesInitStatements)
    /\ imp.pc_top = 6
    /\ "CombinedDoubleExcitationGate" \notin imp.gates_ns
    /\ imp.looked = [name |-> "CombinedDoubleExcitationGate", outcome |-> "ImportError"]

\* CombinedDoubleExcitationGate is the only name the top level asks for that
\* gates/__init__.py does not bind, and four_qubit_gates.py defines it
OnlyCombinedIsMissing ==
    imp.pc_gates = Len(GatesInitStatements) =>
        /\ Names(TopLevelGateImports) \ imp.gates_ns = {"CombinedDoubleExcitationGate"}
        /\ "CombinedDoubleExcitationGate" \in ModuleDefines("four_qubit_gates")

=============================================================================
